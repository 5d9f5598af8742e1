-------------------------- MODULE ConversationsProofs --------------------------
(****************************************************************************)
(* The properties of Conversations, proved for every chain of translators,  *)
(* whatever their modes, prefixes and addresses are, as long as a           *)
(* translator's own addresses are not its router's.                         *)
(****************************************************************************)
EXTENDS Conversations, TLAPS

IsPair(p) == p = <<p[1], p[2]>>
Turned(p) == <<p[2], p[1]>>
Are6(q) == IsAddress6(q[1]) /\ IsAddress6(q[2])

-----------------------------------------------------------------------------
(* One translator.                                                          *)

\* What a translator makes of an IPv4 packet it undoes for the answer and for
\* a quoted packet, and its router is not involved.
LEMMA Return4 ==
    ASSUME NEW c, IsConfig(c), NEW p, IsPair(p), NEW q \in Main4to6(p, c)
    PROVE  /\ IsPair(q) /\ Are6(q)
           /\ Main6to4(Turned(q), c) = {Turned(p)}
           /\ Quoted6to4(q, c) = {p}
           /\ \A s : \A r \in Main6to4(<<s, q[1]>>, c) : IsPair(r) /\ r[2] = p[1]
           /\ p[1] # c.router4 /\ p[2] # c.router4
           /\ q[1] # c.router6 /\ q[2] # c.router6
<1>1. CASE c.mode = "nat64"
  <2>1. /\ q = <<Embedded(p[1], c), c.translator6>>
        /\ Embeddable(p[1], c) /\ Embedded(p[1], c) # c.router6
        /\ p[1] # c.translator4 /\ Embedded(p[1], c) # c.translator6
        /\ p[2] = c.translator4
    BY <1>1 DEF Main4to6, Nat64Main4to6, IntoPrefixNotTranslator, IntoPrefix, Translator4to6
  <2>2. Embedded(p[1], c).low = p[1] /\ Embedded(p[1], c).prefix = c.prefix
    BY DEF Embedded
  <2>3. \A s : Main6to4(<<s, q[1]>>, c) = Translator6to4(s, c) \X {p[1]}
    BY <1>1, <2>1, <2>2 DEF Main6to4, Nat64Main6to4, OutOfPrefixNotTranslator, OutOfPrefix
  <2>4. Translator6to4(c.translator6, c) = {p[2]}
    BY <2>1 DEF Translator6to4
  <2>5. Quoted6to4(q, c) = {p[1]} \X {p[2]}
    BY <1>1, <2>1, <2>2, <2>4 DEF Quoted6to4, Nat64Quoted6to4, QuotedOutOfPrefix
  <2>6. p[1] # c.router4 /\ p[2] # c.router4 /\ q[1] # c.router6 /\ q[2] # c.router6
    BY <1>1, <2>1 DEF Embeddable, IsConfig
  <2>7. IsPair(q) /\ Are6(q)
    BY <2>1 DEF IsPair, Are6, IsAddress6, Embedded, IsConfig
  <2> QED
    BY <2>1, <2>3, <2>4, <2>5, <2>6, <2>7 DEF IsPair, Turned
<1>2. CASE c.mode = "clat"
  <2>1. /\ q = <<c.translator6, Embedded(p[2], c)>>
        /\ Embeddable(p[2], c) /\ Embedded(p[2], c) # c.router6
        /\ p[2] # c.translator4 /\ Embedded(p[2], c) # c.translator6
        /\ p[1] = c.translator4
    BY <1>2 DEF Main4to6, ClatMain4to6, IntoPrefixNotTranslator, IntoPrefix, Translator4to6
  <2>2. Embedded(p[2], c).low = p[2] /\ Embedded(p[2], c).prefix = c.prefix
    BY DEF Embedded
  <2>3. \A s : Main6to4(<<s, q[1]>>, c) = OutOfPrefixNotTranslator(s, c) \X {p[1]}
    BY <1>2, <2>1 DEF Main6to4, ClatMain6to4, Translator6to4
  <2>4. OutOfPrefixNotTranslator(q[2], c) = {p[2]}
    BY <2>1, <2>2 DEF OutOfPrefixNotTranslator, OutOfPrefix
  <2>5. Quoted6to4(q, c) = {p[1]} \X {p[2]}
    BY <1>2, <2>1, <2>2 DEF Quoted6to4, ClatQuoted6to4, QuotedOutOfPrefix, Translator6to4
  <2>6. p[1] # c.router4 /\ p[2] # c.router4 /\ q[1] # c.router6 /\ q[2] # c.router6
    BY <1>2, <2>1 DEF Embeddable, IsConfig
  <2>7. IsPair(q) /\ Are6(q)
    BY <2>1 DEF IsPair, Are6, IsAddress6, Embedded, IsConfig
  <2> QED
    BY <2>1, <2>3, <2>4, <2>5, <2>6, <2>7 DEF IsPair, Turned
<1>3. CASE c.mode = "siit"
  <2>1. /\ q = <<Embedded(p[1], c), Embedded(p[2], c)>>
        /\ Embeddable(p[1], c) /\ Embedded(p[1], c) # c.router6
        /\ Embeddable(p[2], c) /\ Embedded(p[2], c) # c.router6
    BY <1>3 DEF Main4to6, SiitMain4to6, IntoPrefix
  <2>2. \A i \in 1..2 : Embedded(p[i], c).low = p[i] /\ Embedded(p[i], c).prefix = c.prefix
    BY DEF Embedded
  <2>3. \A s : Main6to4(<<s, q[1]>>, c) = OutOfPrefix(s, c) \X {p[1]}
    BY <1>3, <2>1, <2>2 DEF Main6to4, SiitMain6to4, OutOfPrefix
  <2>4. OutOfPrefix(q[2], c) = {p[2]}
    BY <2>1, <2>2 DEF OutOfPrefix
  <2>5. Quoted6to4(q, c) = {p[1]} \X {p[2]}
    BY <1>3, <2>1, <2>2 DEF Quoted6to4, SiitQuoted6to4, QuotedOutOfPrefix
  <2>6. p[1] # c.router4 /\ p[2] # c.router4 /\ q[1] # c.router6 /\ q[2] # c.router6
    BY <2>1 DEF Embeddable
  <2>7. IsPair(q) /\ Are6(q)
    BY <2>1 DEF IsPair, Are6, IsAddress6, Embedded
  <2> QED
    BY <2>1, <2>3, <2>4, <2>5, <2>6, <2>7 DEF IsPair, Turned
<1> QED
  BY <1>1, <1>2, <1>3 DEF IsConfig

\* The same for an IPv6 packet.
LEMMA Return6 ==
    ASSUME NEW c, IsConfig(c), NEW q, IsPair(q), Are6(q), NEW p \in Main6to4(q, c)
    PROVE  /\ IsPair(p)
           /\ Main4to6(Turned(p), c) = {Turned(q)}
           /\ Quoted4to6(p, c) = {q}
           /\ \A s : \A r \in Main4to6(<<s, p[1]>>, c) : IsPair(r) /\ r[2] = q[1]
           /\ p[1] # c.router4 /\ p[2] # c.router4
           /\ q[1] # c.router6 /\ q[2] # c.router6
<1>1. CASE c.mode = "nat64"
  <2>1. /\ p = <<c.translator4, q[2].low>>
        /\ q[2] # c.router6 /\ q[2].prefix = c.prefix /\ Embeddable(p[2], c)
        /\ q[2] # c.translator6 /\ p[2] # c.translator4
        /\ q[1] = c.translator6
    BY <1>1 DEF Main6to4, Nat64Main6to4, OutOfPrefixNotTranslator, OutOfPrefix, Translator6to4
  <2>2. Embedded(p[2], c) = q[2]
    BY <2>1 DEF Embedded, Are6, IsAddress6
  <2>3. \A s : Main4to6(<<s, p[1]>>, c) = IntoPrefixNotTranslator(s, c) \X {q[1]}
    BY <1>1, <2>1 DEF Main4to6, Nat64Main4to6, Translator4to6
  <2>4. IntoPrefixNotTranslator(p[2], c) = {q[2]}
    BY <2>1, <2>2 DEF IntoPrefixNotTranslator, IntoPrefix
  <2>5. Quoted4to6(p, c) = {q[1]} \X {q[2]}
    BY <1>1, <2>1, <2>2 DEF Quoted4to6, Nat64Quoted4to6, QuotedIntoPrefix, Translator4to6
  <2>6. p[1] # c.router4 /\ p[2] # c.router4 /\ q[1] # c.router6 /\ q[2] # c.router6
    BY <1>1, <2>1 DEF Embeddable, IsConfig
  <2> QED
    BY <2>1, <2>3, <2>4, <2>5, <2>6 DEF IsPair, Turned
<1>2. CASE c.mode = "clat"
  <2>1. /\ p = <<q[1].low, c.translator4>>
        /\ q[1] # c.router6 /\ q[1].prefix = c.prefix /\ Embeddable(p[1], c)
        /\ q[1] # c.translator6 /\ p[1] # c.translator4
        /\ q[2] = c.translator6
    BY <1>2 DEF Main6to4, ClatMain6to4, OutOfPrefixNotTranslator, OutOfPrefix, Translator6to4
  <2>2. Embedded(p[1], c) = q[1]
    BY <2>1 DEF Embedded, Are6, IsAddress6
  <2>3. \A s : Main4to6(<<s, p[1]>>, c) = Translator4to6(s, c) \X {q[1]}
    BY <1>2, <2>1, <2>2 DEF Main4to6, ClatMain4to6, IntoPrefixNotTranslator, IntoPrefix
  <2>4. Translator4to6(p[2], c) = {q[2]}
    BY <2>1 DEF Translator4to6
  <2>5. Quoted4to6(p, c) = {q[1]} \X {q[2]}
    BY <1>2, <2>1, <2>2, <2>4 DEF Quoted4to6, ClatQuoted4to6, QuotedIntoPrefix
  <2>6. p[1] # c.router4 /\ p[2] # c.router4 /\ q[1] # c.router6 /\ q[2] # c.router6
    BY <1>2, <2>1 DEF Embeddable, IsConfig
  <2> QED
    BY <2>1, <2>3, <2>4, <2>5, <2>6 DEF IsPair, Turned
<1>3. CASE c.mode = "siit"
  <2>1. /\ p = <<q[1].low, q[2].low>>
        /\ q[1] # c.router6 /\ q[1].prefix = c.prefix /\ Embeddable(p[1], c)
        /\ q[2] # c.router6 /\ q[2].prefix = c.prefix /\ Embeddable(p[2], c)
    BY <1>3 DEF Main6to4, SiitMain6to4, OutOfPrefix
  <2>2. Embedded(p[1], c) = q[1] /\ Embedded(p[2], c) = q[2]
    BY <2>1 DEF Embedded, Are6, IsAddress6
  <2>3. \A s : Main4to6(<<s, p[1]>>, c) = IntoPrefix(s, c) \X {q[1]}
    BY <1>3, <2>1, <2>2 DEF Main4to6, SiitMain4to6, IntoPrefix
  <2>4. IntoPrefix(p[2], c) = {q[2]}
    BY <2>1, <2>2 DEF IntoPrefix
  <2>5. Quoted4to6(p, c) = {q[1]} \X {q[2]}
    BY <1>3, <2>1, <2>2 DEF Quoted4to6, SiitQuoted4to6, QuotedIntoPrefix
  <2>6. p[1] # c.router4 /\ p[2] # c.router4 /\ q[1] # c.router6 /\ q[2] # c.router6
    BY <2>1 DEF Embeddable
  <2> QED
    BY <2>1, <2>3, <2>4, <2>5, <2>6 DEF IsPair, Turned
<1> QED
  BY <1>1, <1>2, <1>3 DEF IsConfig

\* p in IPv4 and q in IPv6 are the same packet on both sides of a translator.
Linked(p, q, c) == q \in Main4to6(p, c) \/ p \in Main6to4(q, c)

\* It has one IPv6 form.
LEMMA OneForm6 ==
    ASSUME NEW c, IsConfig(c), NEW p, IsPair(p),
           NEW q, NEW r, IsPair(q), Are6(q), IsPair(r), Are6(r),
           Linked(p, q, c), Linked(p, r, c)
    PROVE  q = r
<1>1. CASE c.mode = "nat64"
  <2>1. \A x : IsPair(x) /\ Are6(x) /\ Linked(p, x, c) =>
          \/ p[1] # c.translator4 /\ x = <<Embedded(p[1], c), c.translator6>>
          \/ p[1] = c.translator4 /\ x = <<c.translator6, Embedded(p[2], c)>>
    BY <1>1 DEF Linked, Main4to6, Nat64Main4to6, Main6to4, Nat64Main6to4, IntoPrefixNotTranslator, IntoPrefix, Translator4to6,
       OutOfPrefixNotTranslator, OutOfPrefix, Translator6to4, Embedded, IsPair, Are6, IsAddress6
  <2> QED BY <2>1
<1>2. CASE c.mode = "clat"
  <2>1. \A x : IsPair(x) /\ Are6(x) /\ Linked(p, x, c) =>
          \/ p[1] # c.translator4 /\ x = <<Embedded(p[1], c), c.translator6>>
          \/ p[1] = c.translator4 /\ x = <<c.translator6, Embedded(p[2], c)>>
    BY <1>2 DEF Linked, Main4to6, ClatMain4to6, Main6to4, ClatMain6to4, IntoPrefixNotTranslator, IntoPrefix, Translator4to6,
       OutOfPrefixNotTranslator, OutOfPrefix, Translator6to4, Embedded, IsPair, Are6, IsAddress6
  <2> QED BY <2>1
<1>3. CASE c.mode = "siit"
  <2>1. \A x : IsPair(x) /\ Are6(x) /\ Linked(p, x, c) =>
          x = <<Embedded(p[1], c), Embedded(p[2], c)>>
    BY <1>3 DEF Linked, Main4to6, SiitMain4to6, Main6to4, SiitMain6to4, IntoPrefix, OutOfPrefix, Embedded, IsPair, Are6, IsAddress6
  <2> QED BY <2>1
<1> QED
  BY <1>1, <1>2, <1>3 DEF IsConfig

\* It has one IPv4 form.
LEMMA OneForm4 ==
    ASSUME NEW c, IsConfig(c), NEW q, NEW p, NEW r, IsPair(p), IsPair(r),
           Linked(p, q, c), Linked(r, q, c)
    PROVE  p = r
<1>1. CASE c.mode # "siit"
  <2>1. \A x : IsPair(x) /\ Linked(x, q, c) =>
          \/ q[1] # c.translator6 /\ x = <<q[1].low, c.translator4>>
          \/ q[1] = c.translator6 /\ x = <<c.translator4, q[2].low>>
    BY <1>1 DEF Linked, Main4to6, Nat64Main4to6, ClatMain4to6, Main6to4, Nat64Main6to4, ClatMain6to4,
       IntoPrefixNotTranslator, IntoPrefix, Translator4to6, OutOfPrefixNotTranslator, OutOfPrefix,
       Translator6to4, Embedded, IsPair, IsConfig
  <2> QED BY <2>1
<1>2. CASE c.mode = "siit"
  <2>1. \A x : IsPair(x) /\ Linked(x, q, c) => x = <<q[1].low, q[2].low>>
    BY <1>2 DEF Linked, Main4to6, SiitMain4to6, Main6to4, SiitMain6to4, IntoPrefix, OutOfPrefix, Embedded, IsPair
  <2> QED BY <2>1
<1> QED
  BY <1>1, <1>2

\* A translator looks at each address by itself: a source that passes with
\* some destination passes with every destination that passes.
LEMMA EachForItself ==
    ASSUME NEW f, NEW c, IsConfig(c), NEW s, NEW d, NEW x, NEW y,
           Main(f, <<s, d>>, c) # {}, Main(f, <<x, y>>, c) # {}
    PROVE  Main(f, <<s, y>>, c) # {}
<1>1. c.mode \in {"nat64", "clat", "siit"}
  BY DEF IsConfig
<1>2. ASSUME NEW A, NEW B, NEW S, NEW T, A \X B # {}, S \X T # {} PROVE A \X T # {}
  <2>1. PICK a \in A : TRUE
    BY <1>2
  <2>2. PICK b \in T : TRUE
    BY <1>2
  <2> QED
    <3>1. <<a, b>> \in A \X T
      BY <2>1, <2>2
    <3> QED
      BY <3>1
<1>3. CASE f = 4 /\ c.mode = "nat64"
  BY <1>2, <1>3 DEF Main, Main4to6, Nat64Main4to6
<1>4. CASE f = 4 /\ c.mode = "clat"
  BY <1>2, <1>4 DEF Main, Main4to6, ClatMain4to6
<1>5. CASE f = 4 /\ c.mode = "siit"
  BY <1>2, <1>5 DEF Main, Main4to6, SiitMain4to6
<1>6. CASE f # 4 /\ c.mode = "nat64"
  BY <1>2, <1>6 DEF Main, Main6to4, Nat64Main6to4
<1>7. CASE f # 4 /\ c.mode = "clat"
  BY <1>2, <1>7 DEF Main, Main6to4, ClatMain6to4
<1>8. CASE f # 4 /\ c.mode = "siit"
  BY <1>2, <1>8 DEF Main, Main6to4, SiitMain6to4
<1> QED
  BY <1>1, <1>3, <1>4, <1>5, <1>6, <1>7, <1>8

-----------------------------------------------------------------------------
(* The chain.  Operators over explicit arguments, so that they can be used  *)
(* of the next state as well.                                               *)

FamilyIn(ch, place) == IF place % 2 = 0 THEN ch.family ELSE 10 - ch.family

\* Addresses at a place of a chain.
Known(ch, place, p) == IsPair(p) /\ (FamilyIn(ch, place) = 6 => Are6(p))

\* A packet that is p at place k - 1 and q at place k, on its way up or down.
Moved(ch, k, up, p, q) ==
    IF up THEN q \in Main(FamilyIn(ch, k - 1), p, ch.translators[k])
    ELSE p \in Main(FamilyIn(ch, k), q, ch.translators[k])

\* The addresses of a request are known where it was and follow from each other.
IsTrail(ch, t, up) ==
    /\ t = [k \in 0..Len(ch.translators) |-> t[k]]
    /\ \A k \in 0..Len(ch.translators) : t[k] # Nobody => Known(ch, k, t[k])
    /\ \A k \in 1..Len(ch.translators) :
         t[k - 1] # Nobody /\ t[k] # Nobody => Moved(ch, k, up, t[k - 1], t[k])

LEMMA FamilySame == \A place : Family(place) = FamilyIn(chain, place)
BY DEF Family, FamilyIn

\* Neighbouring places have different families.
LEMMA FamilyAlternates ==
    ASSUME NEW ch \in Chains, NEW k \in 1..Len(ch.translators)
    PROVE  /\ ch.family \in {4, 6} /\ Len(ch.translators) \in Nat
           /\ k \in Nat /\ k - 1 \in Nat
           /\ FamilyIn(ch, k - 1) \in {4, 6} /\ FamilyIn(ch, k) = 10 - FamilyIn(ch, k - 1)
<1>1. ch.family \in {4, 6} /\ Len(ch.translators) \in Nat
  BY ConversationsAssumption
<1>2. k \in Nat /\ k - 1 \in Nat
  BY <1>1
<1>3. (k - 1) % 2 \in {0, 1} /\ k % 2 = 1 - ((k - 1) % 2)
  BY <1>2
<1> QED
  BY <1>1, <1>2, <1>3 DEF FamilyIn

LEMMA ConfigFacts ==
    ASSUME NEW ch \in Chains, NEW k \in 1..Len(ch.translators)
    PROVE  IsConfig(ch.translators[k])
<1>1. ch.translators \in Seq(Configs)
  BY ConversationsAssumption
<1>2. ch.translators[k] \in Configs
  BY <1>1
<1> QED
  BY <1>2, ConversationsAssumption

\* A translator makes of the answer to what is here what was there, and so of
\* what an error quotes; an error goes to where the packet came from.
Undoes(f, c, here, there) ==
    /\ Main(f, Turned(here), c) = {Turned(there)}
    /\ Quoted(f, here, c) = {there}
    /\ \A s : \A r \in Main(f, <<s, here[1]>>, c) : IsPair(r) /\ r[2] = there[1]

\* A packet that has moved to a place can be undone there.
LEMMA MovedBack ==
    ASSUME NEW ch \in Chains, NEW k \in 1..Len(ch.translators), NEW up \in BOOLEAN,
           NEW p, NEW q, Moved(ch, k, up, p, q),
           up => Known(ch, k - 1, p), ~up => Known(ch, k, q)
    PROVE  /\ Known(ch, k - 1, p) /\ Known(ch, k, q)
           /\ up => Undoes(FamilyIn(ch, k), ch.translators[k], q, p)
           /\ ~up => Undoes(FamilyIn(ch, k - 1), ch.translators[k], p, q)
           /\ \A i \in 1..2 :
                /\ p[i] # Router(FamilyIn(ch, k - 1), ch.translators[k])
                /\ q[i] # Router(FamilyIn(ch, k), ch.translators[k])
<1> DEFINE c == ch.translators[k]
<1>1. IsConfig(c) /\ FamilyIn(ch, k - 1) \in {4, 6} /\ FamilyIn(ch, k) = 10 - FamilyIn(ch, k - 1)
  BY FamilyAlternates, ConfigFacts
<1>2. CASE up /\ FamilyIn(ch, k - 1) = 4
  <2>1. FamilyIn(ch, k) = 6 /\ q \in Main4to6(p, c) /\ IsPair(p)
    BY <1>1, <1>2 DEF Moved, Main, Known
  <2>2. /\ IsPair(q) /\ Are6(q) /\ Main6to4(Turned(q), c) = {Turned(p)} /\ Quoted6to4(q, c) = {p}
        /\ \A s : \A r \in Main6to4(<<s, q[1]>>, c) : IsPair(r) /\ r[2] = p[1]
        /\ p[1] # c.router4 /\ p[2] # c.router4 /\ q[1] # c.router6 /\ q[2] # c.router6
    BY <1>1, <2>1, Return4
  <2> QED
    BY <1>2, <2>1, <2>2 DEF Known, Main, Quoted, Router, Undoes
<1>3. CASE up /\ FamilyIn(ch, k - 1) = 6
  <2>1. FamilyIn(ch, k) = 4 /\ q \in Main6to4(p, c) /\ IsPair(p) /\ Are6(p)
    BY <1>1, <1>3 DEF Moved, Main, Known
  <2>2. /\ IsPair(q) /\ Main4to6(Turned(q), c) = {Turned(p)} /\ Quoted4to6(q, c) = {p}
        /\ \A s : \A r \in Main4to6(<<s, q[1]>>, c) : IsPair(r) /\ r[2] = p[1]
        /\ q[1] # c.router4 /\ q[2] # c.router4 /\ p[1] # c.router6 /\ p[2] # c.router6
    BY <1>1, <2>1, Return6
  <2> QED
    BY <1>3, <2>1, <2>2 DEF Known, Main, Quoted, Router, Undoes
<1>4. CASE ~up /\ FamilyIn(ch, k - 1) = 6
  <2>1. FamilyIn(ch, k) = 4 /\ p \in Main4to6(q, c) /\ IsPair(q)
    BY <1>1, <1>4 DEF Moved, Main, Known
  <2>2. /\ IsPair(p) /\ Are6(p) /\ Main6to4(Turned(p), c) = {Turned(q)} /\ Quoted6to4(p, c) = {q}
        /\ \A s : \A r \in Main6to4(<<s, p[1]>>, c) : IsPair(r) /\ r[2] = q[1]
        /\ q[1] # c.router4 /\ q[2] # c.router4 /\ p[1] # c.router6 /\ p[2] # c.router6
    BY <1>1, <2>1, Return4
  <2> QED
    BY <1>4, <2>1, <2>2 DEF Known, Main, Quoted, Router, Undoes
<1>5. CASE ~up /\ FamilyIn(ch, k - 1) = 4
  <2>1. FamilyIn(ch, k) = 6 /\ p \in Main6to4(q, c) /\ IsPair(q) /\ Are6(q)
    BY <1>1, <1>5 DEF Moved, Main, Known
  <2>2. /\ IsPair(p) /\ Main4to6(Turned(p), c) = {Turned(q)} /\ Quoted4to6(p, c) = {q}
        /\ \A s : \A r \in Main4to6(<<s, p[1]>>, c) : IsPair(r) /\ r[2] = q[1]
        /\ p[1] # c.router4 /\ p[2] # c.router4 /\ q[1] # c.router6 /\ q[2] # c.router6
    BY <1>1, <2>1, Return6
  <2> QED
    BY <1>5, <2>1, <2>2 DEF Known, Main, Quoted, Router, Undoes
<1> QED
  BY <1>1, <1>2, <1>3, <1>4, <1>5

\* The addresses of one packet on both sides of translator k.
Beside(ch, k, p, q) ==
    /\ Moved(ch, k, TRUE, p, q) \/ Moved(ch, k, FALSE, p, q)
    /\ Known(ch, k - 1, p) /\ Known(ch, k, q)

\* Packets that are the same on one side of a translator are so on the other.
LEMMA MovedAlike ==
    ASSUME NEW ch \in Chains, NEW k \in 1..Len(ch.translators),
           NEW p1, NEW q1, NEW p2, NEW q2,
           Beside(ch, k, p1, q1), Beside(ch, k, p2, q2)
    PROVE  p1 = p2 <=> q1 = q2
<1> DEFINE c == ch.translators[k]
<1>1. IsConfig(c) /\ FamilyIn(ch, k - 1) \in {4, 6} /\ FamilyIn(ch, k) = 10 - FamilyIn(ch, k - 1)
  BY FamilyAlternates, ConfigFacts
<1>2. CASE FamilyIn(ch, k - 1) = 4
  <2>1. FamilyIn(ch, k) = 6
    BY <1>1, <1>2
  <2>2. Linked(p1, q1, c) /\ Linked(p2, q2, c)
    BY <1>2, <2>1 DEF Beside, Moved, Main, Linked
  <2>3. IsPair(p1) /\ IsPair(p2) /\ IsPair(q1) /\ IsPair(q2) /\ Are6(q1) /\ Are6(q2)
    BY <2>1 DEF Beside, Known
  <2>4. p1 = p2 => q1 = q2
    BY <1>1, <2>2, <2>3, OneForm6
  <2>5. q1 = q2 => p1 = p2
    BY <1>1, <2>2, <2>3, OneForm4
  <2> QED
    BY <2>4, <2>5
<1>3. CASE FamilyIn(ch, k - 1) = 6
  <2>1. FamilyIn(ch, k) = 4
    BY <1>1, <1>3
  <2>2. Linked(q1, p1, c) /\ Linked(q2, p2, c)
    BY <1>3, <2>1 DEF Beside, Moved, Main, Linked
  <2>3. IsPair(p1) /\ IsPair(p2) /\ IsPair(q1) /\ IsPair(q2) /\ Are6(p1) /\ Are6(p2)
    BY <1>3 DEF Beside, Known
  <2>4. p1 = p2 => q1 = q2
    BY <1>1, <2>2, <2>3, OneForm4
  <2>5. q1 = q2 => p1 = p2
    BY <1>1, <2>2, <2>3, OneForm6
  <2> QED
    BY <2>4, <2>5
<1> QED
  BY <1>1, <1>2, <1>3

LEMMA PairIsSomebody == \A p : IsPair(p) => p # Nobody
BY DEF IsPair, Nobody

-----------------------------------------------------------------------------
(* The invariant.                                                           *)

\* The way the request went, and where it has been and the packet will be.
Upwards(pk) == IF pk.kind = "request" THEN pk.up ELSE ~pk.up
Been(pk, k) == IF Upwards(pk) THEN k <= pk.place ELSE k >= pk.place

\* What a packet's addresses have to do with the trail.
Fits(pk, t) ==
    /\ pk.kind = "request" => pk.addresses = t[pk.place]
    /\ pk.kind = "answer" => pk.addresses = Turned(t[pk.place])
    /\ pk.kind = "error" =>
         /\ IsPair(pk.addresses)
         /\ pk.addresses[2] = t[pk.place][1]
         /\ pk.quoted = t[pk.place]

TypeInv ==
    /\ chain \in Chains
    /\ packet = [kind |-> packet.kind, place |-> packet.place, up |-> packet.up,
                 addresses |-> packet.addresses, quoted |-> packet.quoted]
    /\ packet.kind \in Kinds /\ packet.place \in 0..Last /\ packet.up \in BOOLEAN
    /\ fate \in {"none", "travels", "dropped", "arrived"}

TrailInv ==
    /\ IsTrail(chain, trail, Upwards(packet))
    /\ fate = "none" =>
         packet = NoPacket /\ \A k \in 0..Last : trail[k] = Nobody
    /\ fate # "none" =>
         /\ \A k \in 0..Last : Been(packet, k) => trail[k] # Nobody
         /\ packet.kind = "request" => \A k \in 0..Last : ~Been(packet, k) => trail[k] = Nobody
         /\ Fits(packet, trail)
    /\ fate = "arrived" => packet.place = End(packet.up)

\* An earlier request was everywhere.
EarlierInv ==
    /\ \E up \in BOOLEAN : IsTrail(chain, earlier, up)
    /\ \A k \in 0..Last : earlier[k] # Nobody => \A j \in 0..Last : earlier[j] # Nobody

IInv == TypeInv /\ TrailInv /\ EarlierInv /\ RequestsStayApart /\ AnswersReturn

LEMMA LastIsNatural == chain \in Chains => Last \in Nat
BY ConversationsAssumption DEF Last

LEMMA EmptyTrail ==
    ASSUME NEW ch \in Chains, NEW up
    PROVE  IsTrail(ch, [k \in 0..Len(ch.translators) |-> Nobody], up)
<1>1. Len(ch.translators) \in Nat
  BY ConversationsAssumption
<1> DEFINE t == [k \in 0..Len(ch.translators) |-> Nobody]
<1>2. \A k \in 0..Len(ch.translators) : t[k] = Nobody
  OBVIOUS
<1>3. \A k \in 1..Len(ch.translators) : k \in 0..Len(ch.translators)
  BY <1>1
<1>4. t = [k \in 0..Len(ch.translators) |-> t[k]]
  OBVIOUS
<1> QED
  BY <1>2, <1>3, <1>4 DEF IsTrail

LEMMA InitIInv == Init => IInv
<1> SUFFICES ASSUME Init PROVE IInv
  OBVIOUS
<1> USE DEF Init
<1>1. Last \in Nat /\ chain \in Chains
  BY LastIsNatural
<1>2. TypeInv
  BY <1>1 DEF TypeInv, NoPacket, Kinds
<1>3. \A up : IsTrail(chain, trail, up)
  BY <1>1, EmptyTrail DEF Last
<1>4. \A k \in 0..Last : trail[k] = Nobody /\ earlier[k] = Nobody
  OBVIOUS
<1>5. TrailInv
  BY <1>3, <1>4 DEF TrailInv
<1>6. EarlierInv
  BY <1>3, <1>4 DEF EarlierInv
<1>7. RequestsStayApart /\ AnswersReturn
  BY <1>4 DEF RequestsStayApart, AnswersReturn
<1> QED
  BY <1>2, <1>5, <1>6, <1>7 DEF IInv

\* A host's packet at either end of the chain.
LEMMA SentIsKnown ==
    ASSUME NEW place, NEW addresses \in Hosts(place) \X Hosts(place)
    PROVE  Known(chain, place, addresses)
<1>1. IsPair(addresses)
  BY DEF IsPair
<1>2. FamilyIn(chain, place) = 6 => Hosts(place) = Hosts6
  BY FamilySame DEF Hosts
<1> QED
  BY <1>1, <1>2, ConversationsAssumption DEF Known, Are6

\* The next translator of a packet and the places beside it.
LEMMA NextFacts ==
    ASSUME TypeInv, packet.place # End(packet.up)
    PROVE  LET k == IF packet.up THEN packet.place + 1 ELSE packet.place
           IN  /\ k \in 1..Last /\ NextTranslator = chain.translators[k]
               /\ NextPlace \in 0..Last
               /\ packet.up => packet.place = k - 1 /\ NextPlace = k
               /\ ~packet.up => packet.place = k /\ NextPlace = k - 1
BY LastIsNatural DEF TypeInv, End, NextTranslator, NextPlace

\* What comes back over a translator.
LEMMA BackFacts ==
    ASSUME TypeInv, TrailInv, fate = "travels", packet.kind # "request",
           packet.place # End(packet.up)
    PROVE  /\ Undoes(Family(packet.place), NextTranslator, trail[packet.place], trail[NextPlace])
           /\ trail[NextPlace] # Nobody
<1>1. PICK k :
      /\ k \in 1..Last /\ NextTranslator = chain.translators[k]
      /\ packet.up => packet.place = k - 1 /\ NextPlace = k
      /\ ~packet.up => packet.place = k /\ NextPlace = k - 1
  BY NextFacts
<1>2. Upwards(packet) = ~packet.up /\ packet.up \in BOOLEAN /\ Upwards(packet) \in BOOLEAN
  BY DEF Upwards, TypeInv
<1>3. chain \in Chains /\ Last \in Nat /\ k \in Nat /\ k - 1 \in 0..Last /\ k \in 0..Last
  BY <1>1, LastIsNatural DEF TypeInv
<1>4. Been(packet, k - 1) /\ Been(packet, k)
  <2>1. k - 1 <= k /\ k >= k - 1 /\ k <= k /\ k - 1 <= k - 1
    BY <1>3
  <2>2. CASE packet.up
    BY <1>1, <1>2, <2>1, <2>2 DEF Been
  <2>3. CASE ~packet.up
    BY <1>1, <1>2, <2>1, <2>3 DEF Been
  <2> QED
    BY <2>2, <2>3
<1>5. trail[k - 1] # Nobody /\ trail[k] # Nobody
  BY <1>3, <1>4 DEF TrailInv
<1>6. /\ Known(chain, k - 1, trail[k - 1]) /\ Known(chain, k, trail[k])
      /\ Moved(chain, k, Upwards(packet), trail[k - 1], trail[k])
  BY <1>1, <1>3, <1>5 DEF TrailInv, IsTrail, Last
<1> DEFINE c == chain.translators[k]
<1>7. CASE packet.up
  <2>1. Moved(chain, k, FALSE, trail[k - 1], trail[k])
    BY <1>2, <1>6, <1>7
  <2>2. k \in 1..Len(chain.translators)
    BY <1>1 DEF Last
  <2>3. Undoes(FamilyIn(chain, k - 1), c, trail[k - 1], trail[k])
    BY <1>3, <1>6, <2>1, <2>2, MovedBack
  <2> QED
    BY <1>1, <1>5, <1>7, <2>3, FamilySame
<1>8. CASE ~packet.up
  <2>1. Moved(chain, k, TRUE, trail[k - 1], trail[k])
    BY <1>2, <1>6, <1>8
  <2>2. k \in 1..Len(chain.translators)
    BY <1>1 DEF Last
  <2>3. Undoes(FamilyIn(chain, k), c, trail[k], trail[k - 1])
    BY <1>3, <1>6, <2>1, <2>2, MovedBack
  <2> QED
    BY <1>1, <1>5, <1>8, <2>3, FamilySame
<1> QED
  BY <1>7, <1>8

-----------------------------------------------------------------------------
(* Every step keeps the invariant.                                          *)

\* A trail gets longer by a place.
LEMMA TrailGrows ==
    ASSUME NEW ch \in Chains, NEW up \in BOOLEAN, NEW t, IsTrail(ch, t, up),
           NEW n \in 0..Len(ch.translators), NEW p, Known(ch, n, p),
           n > 0 /\ t[n - 1] # Nobody => Moved(ch, n, up, t[n - 1], p),
           n < Len(ch.translators) /\ t[n + 1] # Nobody => Moved(ch, n + 1, up, p, t[n + 1])
    PROVE  /\ IsTrail(ch, [t EXCEPT ![n] = p], up)
           /\ [t EXCEPT ![n] = p][n] = p
           /\ \A k \in 0..Len(ch.translators) : k # n => [t EXCEPT ![n] = p][k] = t[k]
<1>1. Len(ch.translators) \in Nat
  BY ConversationsAssumption
<1> DEFINE u == [t EXCEPT ![n] = p]
<1>2. t = [k \in 0..Len(ch.translators) |-> t[k]]
  BY DEF IsTrail
<1>3. /\ u = [k \in 0..Len(ch.translators) |-> u[k]] /\ u[n] = p
      /\ \A k \in 0..Len(ch.translators) : k # n => u[k] = t[k]
  BY <1>2
<1> HIDE DEF u
<1>4. ASSUME NEW k \in 0..Len(ch.translators), u[k] # Nobody PROVE Known(ch, k, u[k])
  BY <1>3, <1>4 DEF IsTrail
<1>5. ASSUME NEW k \in 1..Len(ch.translators), u[k - 1] # Nobody, u[k] # Nobody
      PROVE  Moved(ch, k, up, u[k - 1], u[k])
  <2>1. k \in 0..Len(ch.translators) /\ k - 1 \in 0..Len(ch.translators) /\ k - 1 # k
    BY <1>1
  <2>2. CASE k = n
    <3>1. u[k] = p /\ u[k - 1] = t[k - 1] /\ n > 0
      BY <1>1, <1>3, <2>1, <2>2
    <3> QED
      BY <1>5, <2>2, <3>1
  <2>3. CASE k - 1 = n
    <3>1. n < Len(ch.translators) /\ k = n + 1 /\ k # n
      BY <1>1, <2>3
    <3>2. u[k - 1] = p /\ u[k] = t[k]
      BY <1>3, <2>1, <2>3, <3>1
    <3> QED
      BY <1>5, <2>3, <3>1, <3>2
  <2>4. CASE k # n /\ k - 1 # n
    BY <1>3, <1>5, <2>1, <2>4 DEF IsTrail
  <2> QED
    BY <2>2, <2>3, <2>4
<1>6. IsTrail(ch, u, up)
  BY <1>3, <1>4, <1>5 DEF IsTrail
<1> QED
  BY <1>3, <1>6 DEF u

LEMMA SendStep == IInv /\ Send => IInv'
<1> SUFFICES ASSUME IInv, Send PROVE IInv'
  OBVIOUS
<1> USE DEF IInv
<1>1. PICK up, addresses :
        /\ up \in BOOLEAN /\ addresses \in Hosts(Start(up)) \X Hosts(Start(up))
        /\ packet' = [NoPacket EXCEPT !.place = Start(up), !.up = up, !.addresses = addresses]
        /\ trail' = [trail EXCEPT ![Start(up)] = addresses]
  BY DEF Send
<1>2. /\ fate = "none" /\ fate' = "travels" /\ chain' = chain /\ earlier' = earlier
      /\ chain \in Chains /\ Last \in Nat /\ Last' = Last /\ Start(up) \in 0..Last
      /\ packet = NoPacket /\ \A k \in 0..Last : trail[k] = Nobody
  BY <1>1, LastIsNatural DEF Send, TypeInv, TrailInv, Last, Start
<1>3. /\ packet'.kind = "request" /\ packet'.place = Start(up) /\ packet'.up = up
      /\ packet'.addresses = addresses
      /\ packet' = [kind |-> packet'.kind, place |-> packet'.place, up |-> packet'.up,
                    addresses |-> packet'.addresses, quoted |-> packet'.quoted]
  BY <1>1 DEF NoPacket
<1>4. Upwards(packet') = up
  BY <1>3 DEF Upwards
<1>5. IsTrail(chain, trail, up)
  <2>1. IsTrail(chain, trail, Upwards(packet))
    BY DEF TrailInv
  <2>2. \A k \in 1..Last : k \in 0..Last
    BY <1>2
  <2> QED
    BY <1>2, <2>1, <2>2 DEF IsTrail, Last
<1>6. Known(chain, Start(up), addresses) /\ addresses # Nobody
  BY <1>1, SentIsKnown, PairIsSomebody DEF Known
<1>7. /\ IsTrail(chain, trail', up) /\ trail'[Start(up)] = addresses
      /\ \A k \in 0..Last : k # Start(up) => trail'[k] = Nobody
  <2>1. PICK n : n = Start(up)
    OBVIOUS
  <2>2. n > 0 /\ trail[n - 1] # Nobody => Moved(chain, n, up, trail[n - 1], addresses)
    BY <1>2, <2>1
  <2>3. n < Len(chain.translators) /\ trail[n + 1] # Nobody
          => Moved(chain, n + 1, up, addresses, trail[n + 1])
    BY <1>2, <2>1 DEF Last
  <2>4. n \in 0..Len(chain.translators) /\ Known(chain, n, addresses)
    BY <1>2, <1>6, <2>1 DEF Last
  <2>5. up \in BOOLEAN
    BY <1>1
  <2>6. /\ IsTrail(chain, [trail EXCEPT ![n] = addresses], up)
        /\ [trail EXCEPT ![n] = addresses][n] = addresses
        /\ \A k \in 0..Len(chain.translators) :
             k # n => [trail EXCEPT ![n] = addresses][k] = trail[k]
    BY <1>2, <1>5, <2>2, <2>3, <2>4, <2>5, TrailGrows
  <2> QED
    BY <1>1, <1>2, <2>1, <2>6 DEF Last
<1>8. \A k \in 0..Last : Been(packet', k) <=> k = Start(up)
  BY <1>2, <1>3, <1>4 DEF Been, Start
<1>9. TypeInv'
  BY <1>1, <1>2, <1>3 DEF TypeInv, Kinds
<1>10. TrailInv'
  BY <1>2, <1>3, <1>4, <1>6, <1>7, <1>8 DEF TrailInv, Fits
<1>11. EarlierInv'
  BY <1>2 DEF EarlierInv
<1>12. RequestsStayApart'
  BY <1>2, <1>7 DEF RequestsStayApart
<1>13. AnswersReturn'
  BY <1>2 DEF AnswersReturn
<1> QED
  BY <1>9, <1>10, <1>11, <1>12, <1>13

LEMMA CrossStep == IInv /\ Cross => IInv'
<1> SUFFICES ASSUME IInv, Cross PROVE IInv'
  OBVIOUS
<1> USE DEF IInv
<1>1. PICK addresses \in Translated, quoted \in TranslatedQuote :
        /\ packet' = [packet EXCEPT !.place = NextPlace, !.addresses = addresses, !.quoted = quoted]
        /\ trail' = IF packet.kind = "request" THEN [trail EXCEPT ![NextPlace] = addresses]
                    ELSE trail
  BY DEF Cross
<1>2. /\ fate = "travels" /\ fate' = "travels" /\ chain' = chain /\ earlier' = earlier
      /\ chain \in Chains /\ Last \in Nat /\ Last' = Last
      /\ packet.place # End(packet.up) /\ packet.up \in BOOLEAN /\ packet.place \in 0..Last
  BY LastIsNatural DEF Cross, TypeInv, Last
<1>3. /\ packet'.kind = packet.kind /\ packet'.place = NextPlace /\ packet'.up = packet.up
      /\ packet'.addresses = addresses /\ packet'.quoted = quoted
      /\ packet' = [kind |-> packet'.kind, place |-> packet'.place, up |-> packet'.up,
                    addresses |-> packet'.addresses, quoted |-> packet'.quoted]
  BY <1>1 DEF TypeInv
<1>4. Upwards(packet') = Upwards(packet)
  BY <1>3 DEF Upwards
<1>5. PICK k :
        /\ k \in 1..Last /\ NextTranslator = chain.translators[k]
        /\ NextPlace \in 0..Last
        /\ packet.up => packet.place = k - 1 /\ NextPlace = k
        /\ ~packet.up => packet.place = k /\ NextPlace = k - 1
  BY <1>2, NextFacts
<1>6. TypeInv'
  BY <1>2, <1>3, <1>5 DEF TypeInv
<1>7. EarlierInv' /\ AnswersReturn'
  BY <1>2 DEF EarlierInv, AnswersReturn
<1>8. CASE packet.kind # "request"
  <2>1. trail' = trail /\ Upwards(packet) = ~packet.up
    BY <1>1, <1>8 DEF Upwards
  <2>2. /\ Undoes(Family(packet.place), NextTranslator, trail[packet.place], trail[NextPlace])
    BY <1>2, <1>8, BackFacts
  <2>3. Fits(packet', trail')
    <3>1. CASE packet.kind = "answer"
      <4>1. addresses \in Main(Family(packet.place), Turned(trail[packet.place]), NextTranslator)
        BY <1>2, <3>1 DEF TrailInv, Fits, Translated
      <4> QED
        BY <1>3, <2>1, <2>2, <3>1, <4>1 DEF Fits, Undoes
    <3>2. CASE packet.kind = "error"
      <4>1. /\ packet.addresses = <<packet.addresses[1], trail[packet.place][1]>>
            /\ packet.quoted = trail[packet.place]
        BY <1>2, <3>2 DEF TrailInv, Fits, IsPair
      <4>2. addresses \in Main(Family(packet.place), <<packet.addresses[1], trail[packet.place][1]>>,
                               NextTranslator)
        BY <4>1 DEF Translated
      <4>3. quoted \in Quoted(Family(packet.place), trail[packet.place], NextTranslator)
        BY <3>2, <4>1 DEF TranslatedQuote
      <4> QED
        BY <1>3, <2>1, <2>2, <3>2, <4>2, <4>3 DEF Fits, Undoes
    <3> QED
      BY <1>8, <3>1, <3>2 DEF TypeInv, Kinds
  <2>4. \A j \in 0..Last : Been(packet', j) => Been(packet, j)
    <3> SUFFICES ASSUME NEW j \in 0..Last, Been(packet', j) PROVE Been(packet, j)
      OBVIOUS
    <3>1. j \in Int /\ k \in Int
      BY <1>2, <1>5
    <3>2. CASE packet.up
      <4>1. (Been(packet', j) <=> j >= k) /\ (Been(packet, j) <=> j >= k - 1)
        BY <1>3, <1>4, <1>5, <2>1, <3>2 DEF Been
      <4> QED
        BY <3>1, <4>1
    <3>3. CASE ~packet.up
      <4>1. (Been(packet', j) <=> j <= k - 1) /\ (Been(packet, j) <=> j <= k)
        BY <1>3, <1>4, <1>5, <2>1, <3>3 DEF Been
      <4> QED
        BY <3>1, <4>1
    <3> QED
      BY <3>2, <3>3
  <2>5. TrailInv'
    BY <1>2, <1>3, <1>4, <1>8, <2>1, <2>3, <2>4 DEF TrailInv
  <2>6. RequestsStayApart'
    BY <1>2, <2>1 DEF RequestsStayApart
  <2> QED
    BY <1>6, <1>7, <2>5, <2>6
<1>9. CASE packet.kind = "request"
  <2> DEFINE n == NextPlace
  <2>1. /\ trail' = [trail EXCEPT ![n] = addresses] /\ Upwards(packet) = packet.up
        /\ packet.addresses = trail[packet.place]
        /\ \A j \in 0..Last : Been(packet, j) => trail[j] # Nobody
        /\ \A j \in 0..Last : ~Been(packet, j) => trail[j] = Nobody
        /\ IsTrail(chain, trail, packet.up)
    BY <1>1, <1>2, <1>9 DEF Upwards, TrailInv, Fits
  <2>2. Been(packet, packet.place) /\ trail[packet.place] # Nobody
    BY <1>2, <2>1 DEF Been
  <2>3. Known(chain, packet.place, trail[packet.place])
    BY <1>2, <2>1, <2>2 DEF IsTrail, Last
  <2>4. addresses \in Main(FamilyIn(chain, packet.place), trail[packet.place], NextTranslator)
    BY <2>1, FamilySame DEF Translated
  <2>5. \A j \in 0..Last : Been(packet', j) <=> Been(packet, j) \/ j = n
    <3> SUFFICES ASSUME NEW j \in 0..Last
                 PROVE  Been(packet', j) <=> Been(packet, j) \/ j = n
      OBVIOUS
    <3>1. j \in Int /\ k \in Int
      BY <1>2, <1>5
    <3>2. CASE packet.up
      <4>1. (Been(packet', j) <=> j <= k) /\ (Been(packet, j) <=> j <= k - 1) /\ n = k
        BY <1>3, <1>4, <1>5, <2>1, <3>2 DEF Been
      <4> QED
        BY <3>1, <4>1
    <3>3. CASE ~packet.up
      <4>1. (Been(packet', j) <=> j >= k - 1) /\ (Been(packet, j) <=> j >= k) /\ n = k - 1
        BY <1>3, <1>4, <1>5, <2>1, <3>3 DEF Been
      <4> QED
        BY <3>1, <4>1
    <3> QED
      BY <3>2, <3>3
  <2>6. k \in 1..Len(chain.translators) /\ k - 1 \in 0..Last /\ k \in 0..Last
    BY <1>2, <1>5 DEF Last
  \* The packet at the next place, and how it got there.
  <2>7. /\ Known(chain, n, addresses)
        /\ packet.up => Moved(chain, k, packet.up, trail[k - 1], addresses)
        /\ ~packet.up => Moved(chain, k, packet.up, addresses, trail[k])
    <3>1. CASE packet.up
      <4>1. Moved(chain, k, TRUE, trail[k - 1], addresses) /\ Known(chain, k - 1, trail[k - 1])
        BY <1>5, <2>3, <2>4, <3>1 DEF Moved
      <4>2. Known(chain, k, addresses)
        BY <1>2, <2>6, <4>1, MovedBack
      <4> QED
        BY <1>2, <1>5, <3>1, <4>1, <4>2
    <3>2. CASE ~packet.up
      <4>1. Moved(chain, k, FALSE, addresses, trail[k]) /\ Known(chain, k, trail[k])
        BY <1>5, <2>3, <2>4, <3>2 DEF Moved
      <4>2. Known(chain, k - 1, addresses)
        BY <1>2, <2>6, <4>1, MovedBack
      <4> QED
        BY <1>2, <1>5, <3>2, <4>1, <4>2
    <3> QED
      BY <3>1, <3>2
  <2>8. addresses # Nobody
    BY <2>7, PairIsSomebody DEF Known
  <2>9. /\ IsTrail(chain, trail', packet.up) /\ trail'[n] = addresses
        /\ \A j \in 0..Last : j # n => trail'[j] = trail[j]
    <3>1. n > 0 /\ trail[n - 1] # Nobody => Moved(chain, n, packet.up, trail[n - 1], addresses)
      <4>1. CASE packet.up
        BY <1>5, <2>7, <4>1
      <4>2. CASE ~packet.up
        <5>1. n > 0 => n - 1 \in 0..Last /\ n - 1 < packet.place
          BY <1>2, <1>5, <4>2
        <5>2. n > 0 => ~Been(packet, n - 1)
          BY <1>2, <2>1, <4>2, <5>1 DEF Been
        <5> QED
          BY <2>1, <5>1, <5>2
      <4> QED
        BY <4>1, <4>2
    <3>2. n < Last /\ trail[n + 1] # Nobody => Moved(chain, n + 1, packet.up, addresses, trail[n + 1])
      <4>1. CASE ~packet.up
        <5>1. n + 1 = k
          BY <1>5, <4>1
        <5> QED
          BY <2>7, <4>1, <5>1
      <4>2. CASE packet.up
        <5>1. n < Last => n + 1 \in 0..Last /\ n + 1 > packet.place
          BY <1>2, <1>5, <4>2
        <5>2. n < Last => ~Been(packet, n + 1)
          BY <1>2, <2>1, <4>2, <5>1 DEF Been
        <5> QED
          BY <2>1, <5>1, <5>2
      <4> QED
        BY <4>1, <4>2
    <3>3. n \in 0..Len(chain.translators)
      BY <1>5 DEF Last
    <3> HIDE DEF n
    <3>4. PICK up \in BOOLEAN : up = packet.up
      BY <1>2
    <3>5. n < Len(chain.translators) /\ trail[n + 1] # Nobody
            => Moved(chain, n + 1, up, addresses, trail[n + 1])
      BY <3>2, <3>4 DEF Last
    <3>6. IsTrail(chain, trail, up) /\ Known(chain, n, addresses)
      BY <2>1, <2>7, <3>4
    <3>7. n > 0 /\ trail[n - 1] # Nobody => Moved(chain, n, up, trail[n - 1], addresses)
      BY <3>1, <3>4
    <3>8. /\ IsTrail(chain, [trail EXCEPT ![n] = addresses], up)
          /\ [trail EXCEPT ![n] = addresses][n] = addresses
          /\ \A j \in 0..Len(chain.translators) :
               j # n => [trail EXCEPT ![n] = addresses][j] = trail[j]
      BY <1>2, <3>3, <3>5, <3>6, <3>7, TrailGrows
    <3> QED
      BY <2>1, <3>4, <3>8 DEF Last
  <2>10. TrailInv'
    <3>1. Fits(packet', trail')
      BY <1>3, <1>9, <2>9 DEF Fits
    <3>2. \A j \in 0..Last : Been(packet', j) => trail'[j] # Nobody
      BY <2>1, <2>5, <2>8, <2>9
    <3>3. \A j \in 0..Last : ~Been(packet', j) => trail'[j] = Nobody
      BY <2>1, <2>5, <2>9
    <3>4. IsTrail(chain, trail', Upwards(packet'))
      BY <1>4, <2>1, <2>9
    <3> QED
      BY <1>2, <3>1, <3>2, <3>3, <3>4 DEF TrailInv
  <2>11. RequestsStayApart'
    <3>1. \A j \in 0..Last : earlier[j] # Nobody =>
             (trail[packet.place] = earlier[packet.place] <=> trail'[n] = earlier[n])
      <4> SUFFICES ASSUME NEW j \in 0..Last, earlier[j] # Nobody
                   PROVE  trail[packet.place] = earlier[packet.place] <=> trail'[n] = earlier[n]
        OBVIOUS
      <4>1. PICK up \in BOOLEAN : IsTrail(chain, earlier, up)
        BY DEF EarlierInv
      <4>2. earlier[k - 1] # Nobody /\ earlier[k] # Nobody
        BY <2>6 DEF EarlierInv
      <4>3. Beside(chain, k, earlier[k - 1], earlier[k])
        BY <2>6, <4>1, <4>2 DEF IsTrail, Last, Beside
      <4>4. CASE packet.up
        <5>1. Beside(chain, k, trail[k - 1], addresses)
          BY <1>2, <1>5, <2>3, <2>7, <4>4 DEF Beside
        <5>2. trail[k - 1] = earlier[k - 1] <=> addresses = earlier[k]
          BY <1>2, <2>6, <4>3, <5>1, MovedAlike
        <5> QED
          BY <1>5, <2>9, <4>4, <5>2
      <4>5. CASE ~packet.up
        <5>1. Beside(chain, k, addresses, trail[k])
          BY <1>2, <1>5, <2>3, <2>7, <4>5 DEF Beside
        <5>2. addresses = earlier[k - 1] <=> trail[k] = earlier[k]
          BY <1>2, <2>6, <4>3, <5>1, MovedAlike
        <5> QED
          BY <1>5, <2>9, <4>5, <5>2
      <4> QED
        BY <4>4, <4>5
    <3>2. ASSUME NEW i \in 0..Last, NEW j \in 0..Last,
                 trail'[i] # Nobody, trail'[j] # Nobody, earlier[j] # Nobody, trail'[i] = earlier[i]
          PROVE  trail'[j] = earlier[j]
      <4>1. earlier[i] # Nobody /\ earlier[packet.place] # Nobody
        BY <1>2, <3>2 DEF EarlierInv
      <4>2. CASE i = n /\ j = n
        BY <3>2, <4>2
      <4>3. CASE i = n /\ j # n
        <5>1. trail[packet.place] = earlier[packet.place] /\ trail[j] # Nobody
          BY <2>9, <3>1, <3>2, <4>3
        <5> QED
          BY <1>2, <2>2, <2>9, <3>2, <4>3, <5>1 DEF RequestsStayApart
      <4>4. CASE i # n /\ j = n
        <5>1. trail[i] = earlier[i] /\ trail[i] # Nobody
          BY <2>9, <3>2, <4>4
        <5>2. trail[packet.place] = earlier[packet.place]
          BY <1>2, <2>2, <4>1, <5>1 DEF RequestsStayApart
        <5> QED
          BY <3>1, <3>2, <4>4, <5>2
      <4>5. CASE i # n /\ j # n
        <5>1. trail[i] = earlier[i] /\ trail[i] # Nobody /\ trail[j] # Nobody /\ trail'[j] = trail[j]
          BY <2>9, <3>2, <4>5
        <5> QED
          BY <3>2, <5>1 DEF RequestsStayApart
      <4> QED
        BY <4>2, <4>3, <4>4, <4>5
    <3> QED
      BY <1>2, <3>2 DEF RequestsStayApart
  <2> QED
    BY <1>6, <1>7, <2>10, <2>11
<1> QED
  BY <1>8, <1>9

LEMMA DropStep == IInv /\ Drop => IInv'
<1> SUFFICES ASSUME IInv, Drop PROVE IInv'
  OBVIOUS
<1> USE DEF IInv
<1>1. /\ UNCHANGED <<chain, packet, trail, earlier>> /\ fate = "travels" /\ fate' = "dropped"
      /\ packet.place # End(packet.up) /\ (Translated = {} \/ TranslatedQuote = {})
      /\ Last' = Last
  BY DEF Drop, Last
<1>2. TypeInv'
  BY <1>1 DEF TypeInv
<1>3. TrailInv'
  BY <1>1 DEF TrailInv
<1>4. EarlierInv' /\ RequestsStayApart'
  BY <1>1 DEF EarlierInv, RequestsStayApart
<1>5. AnswersReturn'
  <2>1. CASE packet.kind = "request"
    BY <1>1, <2>1 DEF AnswersReturn
  <2>2. CASE packet.kind = "answer"
    <3>1. packet.addresses = Turned(trail[packet.place])
      BY <1>1, <2>2 DEF TrailInv, Fits
    <3>2. Translated # {} /\ TranslatedQuote # {}
      BY <1>1, <2>2, <3>1, BackFacts DEF Undoes, Translated, TranslatedQuote
    <3> QED
      BY <1>1, <3>2
  <2>3. CASE packet.kind = "error"
    <3>1. /\ packet.addresses = <<packet.addresses[1], trail[packet.place][1]>>
          /\ packet.quoted = trail[packet.place]
      BY <1>1, <2>3 DEF TrailInv, Fits, IsPair
    <3>2. Undoes(Family(packet.place), NextTranslator, trail[packet.place], trail[NextPlace])
      BY <1>1, <2>3, BackFacts
    <3>3. TranslatedQuote # {}
      BY <2>3, <3>1, <3>2 DEF Undoes, TranslatedQuote
    <3>4. packet.addresses[1] # trail[packet.place][2]
      <4>1. SUFFICES ASSUME packet.addresses[1] = trail[packet.place][2] PROVE FALSE
        OBVIOUS
      <4>2. packet.addresses = Turned(trail[packet.place])
        BY <3>1, <4>1 DEF Turned
      <4>3. Translated # {}
        BY <3>2, <4>2 DEF Undoes, Translated
      <4> QED
        BY <1>1, <3>3, <4>3
    <3>5. IsRefusedSource(packet.addresses[1])
      <4> SUFFICES ASSUME NEW host,
                          Main(Family(packet.place), <<packet.addresses[1], host>>,
                               NextTranslator) # {}
                   PROVE  FALSE
        BY DEF IsRefusedSource
      <4>1. Translated = Main(Family(packet.place),
                              <<packet.addresses[1], trail[packet.place][1]>>, NextTranslator)
        BY <3>1 DEF Translated
      <4>2. Main(Family(packet.place), <<trail[packet.place][2], trail[packet.place][1]>>,
                 NextTranslator) # {}
        BY <3>2 DEF Undoes, Turned
      <4>3. IsConfig(NextTranslator)
        BY <1>1, NextFacts, ConfigFacts DEF Last, TypeInv
      <4>4. Translated # {}
        BY <4>1, <4>2, <4>3, EachForItself
      <4> QED
        BY <1>1, <3>3, <4>4
    <3>6. IsRefusedSource(packet.addresses[1])'
      BY <1>1, <3>5 DEF IsRefusedSource, Hosts, Family, NextTranslator
    <3> QED
      BY <1>1, <2>3, <3>4, <3>6 DEF AnswersReturn
  <2> QED
    BY <2>1, <2>2, <2>3 DEF TypeInv, Kinds
<1> QED
  BY <1>2, <1>3, <1>4, <1>5

\* A request that is turned round, as an answer or an error.
LEMMA TurnStep ==
    ASSUME IInv, packet.kind = "request", fate # "none", fate' = "travels",
           UNCHANGED <<chain, trail, earlier>>,
           NEW kind \in {"answer", "error"}, NEW addresses, NEW quoted,
           packet' = [packet EXCEPT !.kind = kind, !.up = ~packet.up,
                      !.addresses = addresses, !.quoted = quoted],
           kind = "answer" => addresses = Turned(trail[packet.place]),
           kind = "error" => /\ IsPair(addresses) /\ addresses[2] = trail[packet.place][1]
                             /\ quoted = trail[packet.place]
    PROVE  IInv'
<1> USE DEF IInv
<1>1. /\ packet'.kind = kind /\ packet'.place = packet.place /\ packet'.up = (~packet.up)
      /\ packet'.addresses = addresses /\ packet'.quoted = quoted
      /\ packet' = [kind |-> packet'.kind, place |-> packet'.place, up |-> packet'.up,
                    addresses |-> packet'.addresses, quoted |-> packet'.quoted]
      /\ packet.up \in BOOLEAN /\ (~packet.up) \in BOOLEAN /\ Last' = Last
  BY DEF TypeInv, Last
<1>2. Upwards(packet') = Upwards(packet)
  BY <1>1 DEF Upwards
<1>3. \A k \in 0..Last : Been(packet', k) <=> Been(packet, k)
  BY <1>1, <1>2 DEF Been
<1>4. TypeInv'
  BY <1>1 DEF TypeInv, Kinds
<1>5. Fits(packet', trail')
  BY <1>1 DEF Fits
<1>6. TrailInv'
  BY <1>1, <1>2, <1>3, <1>5 DEF TrailInv
<1>7. EarlierInv' /\ RequestsStayApart' /\ AnswersReturn'
  BY <1>1 DEF EarlierInv, RequestsStayApart, AnswersReturn
<1> QED
  BY <1>4, <1>6, <1>7

LEMMA NextIInv == IInv /\ [Next]_vars => IInv'
<1> SUFFICES ASSUME IInv, [Next]_vars PROVE IInv'
  OBVIOUS
<1> USE DEF IInv
<1>1. CASE Send
  BY <1>1, SendStep
<1>2. CASE Cross
  BY <1>2, CrossStep
<1>3. CASE Drop
  BY <1>3, DropStep
<1>4. CASE Arrive
  <2>1. /\ UNCHANGED <<chain, packet, trail, earlier>> /\ fate = "travels" /\ fate' = "arrived"
        /\ packet.place = End(packet.up) /\ Last' = Last /\ End(packet.up)' = End(packet.up)
    BY <1>4 DEF Arrive, Last, End
  <2>2. TypeInv' /\ TrailInv'
    BY <2>1 DEF TypeInv, TrailInv
  <2>3. EarlierInv' /\ RequestsStayApart' /\ AnswersReturn'
    BY <2>1 DEF EarlierInv, RequestsStayApart, AnswersReturn
  <2> QED
    BY <2>2, <2>3
<1>5. CASE Answer
  <2>1. /\ packet.kind = "request" /\ fate # "none" /\ fate' = "travels"
        /\ UNCHANGED <<chain, trail, earlier>>
        /\ packet' = [packet EXCEPT !.kind = "answer", !.up = ~packet.up,
                      !.addresses = <<packet.addresses[2], packet.addresses[1]>>]
    BY <1>5 DEF Answer
  <2>2. packet.addresses = trail[packet.place]
    BY <2>1 DEF TrailInv, Fits
  <2>3. packet' = [packet EXCEPT !.kind = "answer", !.up = ~packet.up,
                   !.addresses = Turned(trail[packet.place]), !.quoted = packet.quoted]
    BY <2>1, <2>2 DEF TypeInv, Turned
  <2> QED
    BY <2>1, <2>3, TurnStep
<1>6. CASE Complain
  <2>1. PICK source :
        packet' = [packet EXCEPT !.kind = "error", !.up = ~packet.up,
                   !.addresses = <<source, packet.addresses[1]>>, !.quoted = packet.addresses]
    BY <1>6 DEF Complain
  <2>2. /\ packet.kind = "request" /\ fate # "none" /\ fate' = "travels"
        /\ UNCHANGED <<chain, trail, earlier>>
    BY <1>6 DEF Complain
  <2>3. packet.addresses = trail[packet.place]
    BY <2>2 DEF TrailInv, Fits
  <2> DEFINE addresses == <<source, packet.addresses[1]>>
  <2>4. IsPair(addresses) /\ addresses[2] = trail[packet.place][1]
    BY <2>3 DEF IsPair
  <2> HIDE DEF addresses
  <2>5. packet' = [packet EXCEPT !.kind = "error", !.up = ~packet.up,
                   !.addresses = addresses, !.quoted = packet.addresses]
    BY <2>1 DEF addresses
  <2> QED
    BY <2>2, <2>3, <2>4, <2>5, TurnStep
<1>7. CASE Finish
  <2>1. /\ packet' = NoPacket /\ fate' = "none" /\ chain' = chain /\ Last' = Last
        /\ trail' = [k \in 0..Last |-> Nobody]
        /\ chain \in Chains /\ Last \in Nat
    BY <1>7, LastIsNatural DEF Finish, Last, TypeInv
  <2>2. \A k \in 0..Last : trail'[k] = Nobody
    BY <2>1
  <2>3. TypeInv'
    BY <2>1 DEF TypeInv, NoPacket, Kinds
  <2>4. \A up : IsTrail(chain, trail', up)
    BY <2>1, EmptyTrail DEF Last
  <2>5. TrailInv'
    BY <2>1, <2>2, <2>4 DEF TrailInv
  <2>6. EarlierInv'
    <3>1. CASE earlier' = earlier
      BY <2>1, <3>1 DEF EarlierInv
    <3>2. CASE fate = "arrived" /\ packet.kind = "request" /\ earlier' = trail
      <4>1. packet.place = End(packet.up) /\ Upwards(packet) = packet.up /\ packet.up \in BOOLEAN
        BY <3>2 DEF TrailInv, Upwards, TypeInv
      <4>2. \A k \in 0..Last : Been(packet, k)
        BY <2>1, <4>1 DEF Been, End
      <4>3. \A k \in 0..Last : earlier'[k] # Nobody
        BY <3>2, <4>2 DEF TrailInv
      <4>4. IsTrail(chain, earlier', packet.up)
        BY <3>2, <4>1 DEF TrailInv
      <4> QED
        BY <2>1, <4>1, <4>3, <4>4 DEF EarlierInv
    <3> QED
      BY <1>7, <3>1, <3>2 DEF Finish
  <2>7. RequestsStayApart' /\ AnswersReturn'
    BY <2>1, <2>2 DEF RequestsStayApart, AnswersReturn
  <2> QED
    BY <2>3, <2>5, <2>6, <2>7
<1>8. CASE UNCHANGED vars
  <2>1. UNCHANGED <<chain, packet, fate, trail, earlier>> /\ Last' = Last /\ End(packet.up)' = End(packet.up)
    BY <1>8 DEF vars, Last, End
  <2>2. TypeInv' /\ TrailInv'
    BY <2>1 DEF TypeInv, TrailInv
  <2>3. EarlierInv' /\ RequestsStayApart'
    BY <2>1 DEF EarlierInv, RequestsStayApart
  <2>4. AnswersReturn'
    BY <2>1 DEF AnswersReturn, IsRefusedSource, Hosts, Family, NextTranslator
  <2> QED
    BY <2>2, <2>3, <2>4
<1> QED
  BY <1>1, <1>2, <1>3, <1>4, <1>5, <1>6, <1>7, <1>8 DEF Next

LEMMA Invariance == Spec => []IInv
<1>1. Init => IInv BY InitIInv
<1>2. IInv /\ [Next]_vars => IInv' BY NextIInv
<1> QED BY <1>1, <1>2, PTL DEF Spec

-----------------------------------------------------------------------------
(* The properties.                                                          *)

\* Every variable keeps its type.
THEOREM TypeCorrect == Spec => []TypeOK
<1>1. IInv => TypeOK
  <2> SUFFICES ASSUME IInv PROVE TypeOK
    OBVIOUS
  <2>1. DOMAIN trail = 0..Last
    BY DEF IInv, TrailInv, IsTrail, Last
  <2>2. DOMAIN earlier = 0..Last
    BY DEF IInv, EarlierInv, IsTrail, Last
  <2> QED
    BY <2>1, <2>2 DEF IInv, TypeInv, TypeOK
<1> QED BY <1>1, Invariance, PTL

\* A translator drops no answer to what it has translated, and an error about
\* it only for the sake of its source, if that is an address from which it
\* translates nothing at all: the mappings of both directions refuse the same
\* addresses, and whatever went out can be quoted.
THEOREM NoAnswerIsLost == Spec => []AnswersReturn
<1>1. IInv => AnswersReturn BY DEF IInv
<1> QED BY <1>1, Invariance, PTL

\* An answer takes back the addresses of the request, translator by translator.
THEOREM AnswersReachTheSender == Spec => []AnswersFindBack
<1>1. IInv => AnswersFindBack
  <2> SUFFICES ASSUME IInv, packet.kind = "answer" PROVE AnswersFindBack
    BY DEF AnswersFindBack
  <2>1. fate # "none"
    BY DEF IInv, TrailInv, NoPacket
  <2>2. packet.addresses = Turned(trail[packet.place])
    BY <2>1 DEF IInv, TrailInv, Fits
  <2> QED
    BY <2>2 DEF AnswersFindBack, Turned
<1> QED BY <1>1, Invariance, PTL

\* An error quotes the request as it was wherever the error is.
THEOREM ErrorsAreAboutTheRequest == Spec => []ErrorsNameTheRequest
<1>1. IInv => ErrorsNameTheRequest
  <2> SUFFICES ASSUME IInv, packet.kind = "error" PROVE ErrorsNameTheRequest
    BY DEF ErrorsNameTheRequest
  <2>1. fate # "none"
    BY DEF IInv, TrailInv, NoPacket
  <2> QED
    BY <2>1 DEF IInv, TrailInv, Fits, ErrorsNameTheRequest
<1> QED BY <1>1, Invariance, PTL

\* No two requests become one, on any chain.
THEOREM NoRequestsMerge == Spec => []RequestsStayApart
<1>1. IInv => RequestsStayApart BY DEF IInv
<1> QED BY <1>1, Invariance, PTL

\* A translator translates nothing from or to its own router.
THEOREM RoutersAreNotTranslated == Spec => []RouterStaysApart
<1>1. IInv => RouterStaysApart
  <2> SUFFICES ASSUME IInv, NEW k \in 1..Last, trail[k - 1] # Nobody, trail[k] # Nobody,
                      NEW i \in 1..2, NEW place \in {k - 1, k}
               PROVE  trail[place][i] # Router(Family(place), chain.translators[k])
    BY DEF RouterStaysApart
  <2>1. chain \in Chains /\ Last \in Nat /\ k - 1 \in 0..Last /\ k \in 0..Last
    BY LastIsNatural DEF IInv, TypeInv
  <2>2. /\ Known(chain, k - 1, trail[k - 1]) /\ Known(chain, k, trail[k])
        /\ Moved(chain, k, Upwards(packet), trail[k - 1], trail[k])
        /\ Upwards(packet) \in BOOLEAN
    BY <2>1 DEF IInv, TrailInv, IsTrail, Last, Upwards, TypeInv
  <2>3. k \in 1..Len(chain.translators)
    BY DEF Last
  <2>4. /\ trail[k - 1][i] # Router(FamilyIn(chain, k - 1), chain.translators[k])
        /\ trail[k][i] # Router(FamilyIn(chain, k), chain.translators[k])
    BY <2>1, <2>2, <2>3, MovedBack
  <2> QED
    BY <2>4, FamilySame
<1> QED BY <1>1, Invariance, PTL
=============================================================================
