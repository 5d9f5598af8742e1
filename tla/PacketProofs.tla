------------------------------ MODULE PacketProofs ------------------------------
(****************************************************************************)
(* Proofs about what packets hold.  First HeaderWalks, for all packets and  *)
(* options: that nothing is read outside follows from the sum of pointer    *)
(* and remaining size, which never changes; that a quote is read like the   *)
(* packet follows from the path, the headers passed so far, each of which   *)
(* leads to the next.  Then Integrity, for bytes of any width, in either    *)
(* byte order, for all data, prefixes and numbers of translators: a sum in  *)
(* one byte order is a multiple of the sum in the other (Turn), folding     *)
(* keeps a sum modulo Ones, and so a checksum that is adapted is as right   *)
(* or as wrong as it was before.  The two have nothing else in common.      *)
(****************************************************************************)
EXTENDS HeaderWalks, Integrity, NaturalsInduction, WellFoundedInduction, TLAPS

-----------------------------------------------------------------------------
(* Places on the way: where a header is, its number and the fragment header.*)

Place == <<at, header, fragment>>
Start(p) == <<0, p.first, NoFragment>>
IsBefore(t) == t[3] = NoFragment /\ t[2] \in Extensions
Over(p, t) == <<t[1] + HeaderSize(UnitIn(p, t[1])), UnitIn(p, t[1]).next,
                IF t[2] = FRAGMENT THEN t[1] ELSE NoFragment>>

\* T holds places from which one gets to the place "end", and to no other.
LeadsTo(p, T, end) ==
    /\ end \in T
    /\ \A t \in T :
         /\ t[1] \in Nat /\ t[1] <= end[1]
         /\ t # end => IsBefore(t) /\ Over(p, t) \in T

\* The walk along the whole packet has come from its beginning.
CameFromStart == \E T : LeadsTo(packet, T, Place) /\ Start(packet) \in T

WholePlace == <<whole.at, whole.header, whole.fragment>>

\* The walk along the quoted packet is on the same way.
SameWay ==
    /\ whole = [at |-> whole.at, header |-> whole.header, fragment |-> whole.fragment]
    /\ whole.at \in Nat
    /\ ~IsBefore(WholePlace)
    /\ \E T : LeadsTo(packet, T, WholePlace) /\ Place \in T

SumsUp ==
    /\ at + left = size
    /\ reach <= size
    /\ outcome = "accepted" => 0 <= left
    /\ kind = "ipv4" => 0 <= left

\* What is walked along is the quoted part of a packet that was let through.
IsKnownQuote == kind = "quoted" /\ whole # Nothing

OnTheWay ==
    /\ kind = "idle" => whole = Nothing
    /\ kind = "ipv6" => CameFromStart
    /\ kind = "ipv6" /\ outcome = "accepted" => ~IsBefore(Place)
    /\ IsKnownQuote => SameWay
    /\ IsKnownQuote /\ outcome = "accepted" => Place = WholePlace
    /\ IsKnownQuote /\ outcome = "rejected" => size < whole.at

IInv == TypeOK /\ SumsUp /\ OnTheWay

-----------------------------------------------------------------------------
LEMMA UnitTyped ==
    ASSUME NEW p \in Packets6, NEW i \in Nat
    PROVE  /\ UnitIn(p, i).next \in 0..255
           /\ UnitIn(p, i).size \in 0..255
           /\ HeaderSize(UnitIn(p, i)) \in Nat
           /\ HeaderSize(UnitIn(p, i)) >= 8
  <1>1. p.units \in Seq(Unit)
    BY HeaderWalksAssumption
  <1>2. UnitIn(p, i) \in Unit
    <2>1. CASE i \div 8 < Len(p.units)
      <3>1. i \div 8 + 1 \in 1..Len(p.units)
        BY <2>1, <1>1
      <3> QED BY <3>1, <2>1, <1>1 DEF UnitIn
    <2>2. CASE ~(i \div 8 < Len(p.units))
      BY <2>2 DEF UnitIn, Behind, Unit
    <2> QED BY <2>1, <2>2
  <1>3. UnitIn(p, i).next \in 0..255 /\ UnitIn(p, i).size \in 0..255
    BY <1>2 DEF Unit
  <1> QED BY <1>3 DEF HeaderSize

LEMMA ByteTyped ==
    ASSUME packet \in Options4, NEW i \in Nat
    PROVE  ByteAt(i) \in 0..255
  <1>0. PICK bytes : bytes = 0..255
    OBVIOUS
  <1>1. PICK o : o = packet /\ o \in Seq(bytes)
    BY <1>0, HeaderWalksAssumption
  <1>2. CASE i < Len(o)
    <2>1. i + 1 \in 1..Len(o)
      BY <1>1, <1>2
    <2>2. o[i + 1] \in bytes
      BY <1>1, <2>1
    <2> QED BY <1>0, <1>1, <1>2, <2>2 DEF ByteAt
  <1>3. CASE ~(i < Len(o))
    <2>1. ByteAt(i) = 1
      BY <1>1, <1>3 DEF ByteAt
    <2> QED BY <2>1
  <1> QED BY <1>2, <1>3

\* At its start a walk has passed nothing.
LEMMA AtTheStart ==
    ASSUME NEW p
    PROVE  LeadsTo(p, {Start(p)}, Start(p))
  BY DEF LeadsTo, Start

\* One more header is passed.
LEMMA OneFurther ==
    ASSUME NEW p \in Packets6, NEW T, NEW t, LeadsTo(p, T, t), IsBefore(t)
    PROVE  LeadsTo(p, T \cup {Over(p, t)}, Over(p, t))
  <1> DEFINE u == Over(p, t)
  <1>1. t \in T /\ t[1] \in Nat
    BY DEF LeadsTo
  <1>2. u[1] \in Nat /\ t[1] <= u[1]
    BY <1>1, UnitTyped DEF Over
  <1>3. ASSUME NEW s \in T \cup {u}
        PROVE  /\ s[1] \in Nat /\ s[1] <= u[1]
               /\ s # u => IsBefore(s) /\ Over(p, s) \in T \cup {u}
    <2>1. CASE s = u
      BY <2>1, <1>2
    <2>2. CASE s \in T
      <3>1. s[1] \in Nat /\ s[1] <= t[1]
        BY <2>2 DEF LeadsTo
      <3>2. s[1] <= u[1]
        <4> HIDE DEF u
        <4> QED BY <3>1, <1>1, <1>2
      <3>3. CASE s = t
        BY <3>1, <3>2, <3>3
      <3>4. CASE s # t
        BY <3>1, <3>2, <3>4, <2>2 DEF LeadsTo
      <3> QED BY <3>3, <3>4
    <2> QED BY <1>3, <2>1, <2>2
  <1> HIDE DEF u
  <1>4. LeadsTo(p, T \cup {u}, u)
    BY <1>3 DEF LeadsTo
  <1> QED BY <1>4 DEF u

-----------------------------------------------------------------------------
LEMMA InitIInv == Init => IInv
  BY DEF Init, IInv, TypeOK, SumsUp, OnTheWay, IsKnownQuote, NoFragment

\* A step over an extension header.
LEMMA StepOverKeeps == IInv /\ StepOver => IInv'
  <1> SUFFICES ASSUME IInv, StepOver PROVE IInv'
    OBVIOUS
  <1> USE DEF IInv
  <1> DEFINE u == UnitIn(packet, at)
  <1>1. packet \in Packets6 /\ kind \in {"ipv6", "quoted"} /\ at \in Nat
        /\ outcome = "walking"
    BY DEF TypeOK, StepOver, AtExtension
  <1>2. /\ u.next \in 0..255
        /\ HeaderSize(u) \in Nat
    BY <1>1, UnitTyped
  <1>3. /\ header' = u.next
        /\ at' = at + HeaderSize(u)
        /\ left' = left - HeaderSize(u)
        /\ fragment' = IF header = FRAGMENT THEN at ELSE NoFragment
        /\ reach' = at + 8
        /\ left >= 8
        /\ UNCHANGED <<kind, packet, size, outcome, whole>>
    BY DEF StepOver, UnitAt, IsCutOff, TypeOK
  <1>4. TypeOK'
    <2> HIDE DEF u
    <2> QED BY <1>1, <1>2, <1>3 DEF TypeOK
  <1>5. SumsUp'
    <2> HIDE DEF u
    <2> QED BY <1>1, <1>2, <1>3 DEF TypeOK, SumsUp
  <1>6. IsBefore(Place)
    BY DEF StepOver, AtExtension, IsBefore, Place
  <1>7. Place' = Over(packet, Place)
    BY <1>3 DEF Over, Place
  <1>8. (kind = "ipv6" => CameFromStart)'
    <2> SUFFICES ASSUME kind = "ipv6" PROVE CameFromStart'
      BY <1>3
    <2>1. PICK T : LeadsTo(packet, T, Place) /\ Start(packet) \in T
      BY DEF OnTheWay, CameFromStart
    <2>2. LeadsTo(packet, T \cup {Over(packet, Place)}, Over(packet, Place))
      BY <2>1, <1>1, <1>6, OneFurther
    <2>3. Start(packet) \in T \cup {Over(packet, Place)}
      BY <2>1
    <2> QED BY <2>2, <2>3, <1>7, <1>3 DEF CameFromStart
  <1>9. (IsKnownQuote => SameWay)'
    <2> SUFFICES ASSUME IsKnownQuote PROVE SameWay'
      BY <1>3 DEF IsKnownQuote
    <2>1. SameWay
      BY DEF OnTheWay
    <2>2. PICK T : LeadsTo(packet, T, WholePlace) /\ Place \in T
      BY <2>1 DEF SameWay
    <2>3. Place # WholePlace
      BY <1>6, <2>1 DEF SameWay
    <2>4. Over(packet, Place) \in T
      BY <2>2, <2>3 DEF LeadsTo
    <2>5. LeadsTo(packet', T, WholePlace') /\ Place' \in T
      BY <2>2, <2>4, <1>7, <1>3 DEF WholePlace
    <2> QED BY <2>1, <2>5, <1>3 DEF SameWay, WholePlace
  <1> QED BY <1>1, <1>3, <1>4, <1>5, <1>8, <1>9 DEF OnTheWay, IsKnownQuote

\* A walk that begins at the start of a packet, or of options.
LEMMA ReceiveKeeps == IInv /\ (Receive6 \/ QuoteUnseen \/ Receive4) => IInv'
  <1> SUFFICES ASSUME IInv, Receive6 \/ QuoteUnseen \/ Receive4 PROVE IInv'
    OBVIOUS
  <1>1. CASE Receive6
    <2>1. PICK p \in Packets6 : Begin("ipv6", p, Size6(p), p.first)
      BY <1>1 DEF Receive6
    <2>2. p.first \in 0..255 /\ Size6(p) \in Nat
      BY HeaderWalksAssumption DEF Size6
    <2>3. TypeOK' /\ SumsUp'
      BY <2>1, <2>2 DEF Begin, TypeOK, SumsUp, NoFragment
    <2>4. Place' = Start(p) /\ packet' = p
      BY <2>1 DEF Begin, Place, Start
    <2>5. CameFromStart'
      BY <2>4, AtTheStart DEF CameFromStart
    <2> QED BY <2>1, <2>3, <2>5 DEF Begin, IInv, OnTheWay, IsKnownQuote
  <1>2. CASE Receive4
    <2>1. PICK o \in Options4 : Begin("ipv4", o, Len(o), 0)
      BY <1>2 DEF Receive4
    <2>2. Len(o) \in Nat
      BY HeaderWalksAssumption
    <2> QED BY <2>1, <2>2 DEF Begin, IInv, TypeOK, SumsUp, OnTheWay, IsKnownQuote, NoFragment
  <1>3. CASE QuoteUnseen
    <2>1. PICK p \in Packets6 : Begin("quoted", p, Size6(p), p.first)
      BY <1>3 DEF QuoteUnseen
    <2>2. p.first \in 0..255 /\ Size6(p) \in Nat
      BY HeaderWalksAssumption DEF Size6
    <2>3. TypeOK' /\ SumsUp'
      BY <2>1, <2>2 DEF Begin, TypeOK, SumsUp, NoFragment
    <2>4. kind' = "quoted" /\ whole' = Nothing
      BY <1>3, <2>1 DEF QuoteUnseen, Begin, IInv, OnTheWay
    <2> QED BY <2>3, <2>4 DEF IInv, OnTheWay, IsKnownQuote
  <1> QED BY <1>1, <1>2, <1>3

\* The quoted packet starts where the packet started.
LEMMA QuoteKeeps == IInv /\ Quote => IInv'
  <1> SUFFICES ASSUME IInv, Quote PROVE IInv'
    OBVIOUS
  <1> USE DEF IInv
  <1>1. PICK n \in 0..size : Begin("quoted", packet, n, packet.first)
    BY DEF Quote
  <1>2. packet \in Packets6 /\ size \in Nat /\ at \in Nat
    BY DEF Quote, TypeOK
  <1>3. packet.first \in 0..255 /\ n \in Nat
    BY <1>2, HeaderWalksAssumption
  <1>4. TypeOK' /\ SumsUp'
    BY <1>1, <1>2, <1>3 DEF Begin, TypeOK, SumsUp, NoFragment
  <1>5. whole' = [at |-> at, header |-> header, fragment |-> fragment]
    BY DEF Quote
  <1>6. WholePlace' = Place
    BY <1>5 DEF WholePlace, Place
  <1>7. Place' = Start(packet) /\ packet' = packet
    BY <1>1 DEF Begin, Place, Start
  <1>8. \E T : LeadsTo(packet, T, Place) /\ Start(packet) \in T
    BY DEF Quote, OnTheWay, CameFromStart
  <1>9. ~IsBefore(Place)
    BY DEF Quote, OnTheWay
  <1>10. SameWay'
    BY <1>2, <1>5, <1>6, <1>7, <1>8, <1>9 DEF SameWay
  <1> QED BY <1>1, <1>4, <1>7, <1>9, <1>10 DEF Begin, OnTheWay, IsKnownQuote

\* A walk along extension headers ends.
LEMMA EndsKeep == IInv /\ (CutOff \/ Refuse \/ EndOfHeaders) => IInv'
  <1> SUFFICES ASSUME IInv, CutOff \/ Refuse \/ EndOfHeaders PROVE IInv'
    OBVIOUS
  <1> USE DEF IInv
  <1>1. /\ kind \in {"ipv6", "quoted"} /\ outcome = "walking"
        /\ packet \in Packets6 /\ at \in Nat /\ left \in Int /\ size \in Nat
        /\ at + left = size
    BY DEF CutOff, Refuse, EndOfHeaders, AtExtension, TypeOK, SumsUp
  <1>2. /\ UNCHANGED <<kind, packet, size, at, left, header, fragment, whole>>
        /\ outcome' \in {"rejected", "accepted"}
    BY DEF CutOff, Refuse, EndOfHeaders, Reject, walk
  <1>3. reach' \in Nat /\ reach' <= size
    BY <1>1 DEF CutOff, Refuse, EndOfHeaders, Reject, IsCutOff, walk, TypeOK, SumsUp
  <1>4. TypeOK'
    BY <1>2, <1>3 DEF TypeOK
  <1>5. outcome' = "accepted" => EndOfHeaders /\ 0 <= left
    BY <1>1 DEF CutOff, Refuse, EndOfHeaders, Reject
  <1>6. SumsUp'
    BY <1>1, <1>2, <1>3, <1>5 DEF SumsUp
  <1>7. Place' = Place /\ WholePlace' = WholePlace
    BY <1>2 DEF Place, WholePlace
  <1>8. (CameFromStart <=> CameFromStart') /\ (SameWay <=> SameWay')
    BY <1>2, <1>7 DEF CameFromStart, SameWay
  <1>9. EndOfHeaders => ~IsBefore(Place)
    BY <1>1 DEF EndOfHeaders, AtExtension, IsBefore, Place
  <1>10. ASSUME IsKnownQuote
         PROVE  /\ outcome' = "accepted" => Place = WholePlace
                /\ outcome' = "rejected" => size < whole.at
    <2>1. SameWay
      BY <1>10 DEF OnTheWay
    <2>2. PICK T : LeadsTo(packet, T, WholePlace) /\ Place \in T
      BY <2>1 DEF SameWay
    <2>3. CASE EndOfHeaders
      <3>1. Place = WholePlace
        BY <2>2, <2>3, <1>9 DEF LeadsTo
      <3>2. at = whole.at
        BY <3>1 DEF Place, WholePlace
      <3>3. outcome' = "rejected" => left < 0
        BY <2>3, <1>10 DEF EndOfHeaders, IsUnsuitable, IsKnownQuote
      <3> QED BY <3>1, <3>2, <3>3, <1>1
    <2>4. CASE CutOff
      <3>1. IsBefore(Place) /\ left < 8
        BY <2>4 DEF CutOff, AtExtension, IsBefore, Place, IsCutOff
      <3>2. Place # WholePlace
        BY <3>1, <2>1 DEF SameWay
      <3>3. Over(packet, Place) \in T
        BY <2>2, <3>2 DEF LeadsTo
      <3>4. Over(packet, Place)[1] <= whole.at
        BY <2>2, <3>3 DEF LeadsTo, WholePlace
      <3>5. PICK h \in Nat : h = HeaderSize(UnitIn(packet, at)) /\ h >= 8
        BY <1>1, UnitTyped
      <3>6. at + h <= whole.at
        BY <3>4, <3>5 DEF Over, Place
      <3>7. whole.at \in Nat
        BY <2>1 DEF SameWay
      <3>8. size < whole.at
        BY <3>1, <3>5, <3>6, <3>7, <1>1
      <3>9. outcome' = "rejected"
        BY <2>4 DEF CutOff, Reject
      <3> QED BY <3>8, <3>9
    <2>5. CASE Refuse
      BY <2>5, <1>10 DEF Refuse, IsRefused, IsKnownQuote
    <2> QED BY <2>3, <2>4, <2>5
  <1>11. OnTheWay'
    BY <1>1, <1>2, <1>5, <1>7, <1>8, <1>9, <1>10 DEF OnTheWay, IsKnownQuote, IsBefore
  <1> QED BY <1>4, <1>6, <1>11

\* A step along options.
LEMMA OptionsKeep == IInv /\ (BadOption \/ SkipOption \/ EndOfOptions) => IInv'
  <1> SUFFICES ASSUME IInv, BadOption \/ SkipOption \/ EndOfOptions PROVE IInv'
    OBVIOUS
  <1> USE DEF IInv
  <1>1. /\ kind = "ipv4" /\ outcome = "walking"
        /\ packet \in Options4 /\ at \in Nat /\ left \in Int /\ size \in Nat
        /\ reach \in Nat /\ at + left = size /\ reach <= size /\ 0 <= left
    BY DEF BadOption, SkipOption, EndOfOptions, AtOption, TypeOK, SumsUp
  <1>2. /\ UNCHANGED <<kind, packet, size, header, fragment, whole>>
        /\ outcome' \in {"walking", "rejected", "accepted"}
    BY <1>1 DEF BadOption, SkipOption, EndOfOptions, Reject, walk
  <1>3. /\ at' \in Nat /\ left' \in Int /\ at' + left' = size /\ 0 <= left'
        /\ reach' \in Nat /\ reach' <= size
    <2>1. CASE BadOption
      BY <2>1, <1>1 DEF BadOption, Reject, AtOption, IsBadOption, IsOneByte, SOURCE_ROUTES,
         END_OF_OPTIONS, NO_OPERATION
    <2>2. CASE SkipOption
      <3>1. PICK n \in 0..255 : n = ByteAt(at + 1)
        BY <1>1, ByteTyped
      <3>2. PICK s : /\ s = OptionSize(at)
                     /\ s = 1 \/ (s = n /\ 2 <= n /\ n <= left /\ 2 <= left)
                     /\ IsOneByte(ByteAt(at)) \/ 2 <= left
        BY <2>2, <3>1, <1>1 DEF SkipOption, IsBadOption, OptionSize, IsTooSmall
      <3>3. s \in Nat /\ s <= left /\ 0 < left
        BY <2>2, <3>1, <3>2, <1>1 DEF SkipOption, AtOption
      <3>4. at' = at + s /\ left' = left - s
        BY <2>2, <3>2 DEF SkipOption
      <3>5. reach' \in {at + 1, at + 2} /\ (reach' = at + 1 \/ 2 <= left)
        BY <2>2, <3>2 DEF SkipOption
      <3> QED BY <3>3, <3>4, <3>5, <1>1
    <2>3. CASE EndOfOptions
      BY <2>3, <1>1 DEF EndOfOptions, walk
    <2> QED BY <2>1, <2>2, <2>3
  <1>4. TypeOK'
    BY <1>1, <1>2, <1>3 DEF TypeOK
  <1>5. SumsUp'
    BY <1>1, <1>2, <1>3 DEF SumsUp
  <1> QED BY <1>1, <1>2, <1>4, <1>5 DEF OnTheWay, IsKnownQuote

LEMMA FinishKeeps == IInv /\ Finish => IInv'
  BY DEF Finish, IInv, TypeOK, SumsUp, OnTheWay, IsKnownQuote, NoFragment

LEMMA IInvHolds == Spec => []IInv
  <1>1. Init => IInv
    BY InitIInv
  <1>2. IInv /\ [Next]_vars => IInv'
    <2> SUFFICES ASSUME IInv, [Next]_vars PROVE IInv'
      OBVIOUS
    <2>1. CASE Receive6 \/ QuoteUnseen \/ Receive4
      BY <2>1, ReceiveKeeps
    <2>2. CASE Quote
      BY <2>2, QuoteKeeps
    <2>3. CASE StepOver
      BY <2>3, StepOverKeeps
    <2>4. CASE CutOff \/ Refuse \/ EndOfHeaders
      BY <2>4, EndsKeep
    <2>5. CASE BadOption \/ SkipOption \/ EndOfOptions
      BY <2>5, OptionsKeep
    <2>6. CASE Finish
      BY <2>6, FinishKeeps
    <2>7. CASE UNCHANGED vars
      BY <2>7 DEF IInv, TypeOK, SumsUp, OnTheWay, IsKnownQuote, CameFromStart, SameWay, Place, WholePlace,
         vars, walk
    <2> QED BY <2>1, <2>2, <2>3, <2>4, <2>5, <2>6, <2>7 DEF Next, Walk
  <1> QED BY <1>1, <1>2, PTL DEF Spec

-----------------------------------------------------------------------------
(* Options.  The walk stands where every division of the options into sound *)
(* ones has a start, and has come there over sound options only.            *)

\* What has been passed so far.
OnlySoundPassed ==
    \E places \in SUBSET (0..at) :
        /\ {0, at} \subseteq places
        /\ \A k \in places \ {at} : IsSound(k) /\ NextOption(k) \in places

NoOtherWay == \A places \in SUBSET (0..size) : AreStarts(places) => at \in places

OptionsInv ==
    kind = "ipv4" =>
        /\ size = Len(packet)
        /\ outcome = "walking" => OnlySoundPassed /\ NoOtherWay
        /\ outcome = "accepted" => \E places \in SUBSET (0..size) : AreStarts(places)
        /\ outcome = "rejected" => ~\E places \in SUBSET (0..size) : AreStarts(places)

\* What the loop refuses is what RFC 791 does not allow.
LEMMA BadIsUnsound ==
    ASSUME TypeOK, kind = "ipv4", size = Len(packet), at + left = size, 0 < left
    PROVE  /\ IsBadOption <=> ~IsSound(at)
           /\ ~IsBadOption => NextOption(at) = at + OptionSize(at)
  <1>1. packet \in Options4 /\ at \in Nat /\ left \in Int /\ size \in Nat
    BY DEF TypeOK
  <1>2. PICK first \in 0..255 : first = ByteAt(at)
    BY <1>1, ByteTyped
  <1>3. packet[at + 1] = first
    BY <1>1, <1>2 DEF ByteAt
  <1>4. PICK second \in 0..255 : second = ByteAt(at + 1)
    <2>1. at + 1 \in Nat
      BY <1>1
    <2> QED BY <1>1, <2>1, ByteTyped
  <1>5. 2 <= left => packet[at + 2] = second
    BY <1>1, <1>4 DEF ByteAt
  <1>6. CASE IsOneByte(first)
    <2>1. first \notin SOURCE_ROUTES
      BY <1>6 DEF IsOneByte, SOURCE_ROUTES, END_OF_OPTIONS, NO_OPERATION
    <2> QED BY <1>1, <1>2, <1>3, <1>6, <2>1 DEF IsBadOption, IsSound, IsWhole, NextOption, OptionSize
  <1>7. CASE ~IsOneByte(first) /\ left < 2
    BY <1>1, <1>2, <1>3, <1>7 DEF IsBadOption, IsSound, IsWhole
  <1>8. CASE ~IsOneByte(first) /\ ~(left < 2)
    <2>1. NextOption(at) = at + second /\ OptionSize(at) = second
      BY <1>2, <1>3, <1>4, <1>5, <1>1, <1>8 DEF NextOption, OptionSize
    <2>2. IsWhole(at) <=> second >= 2 /\ at + second <= size
      BY <2>1, <1>1, <1>3, <1>5, <1>8 DEF IsWhole
    <2>3. IsBadOption <=> first \in SOURCE_ROUTES \/ second < 2 \/ second > left
      BY <1>1, <1>2, <1>4, <1>8 DEF IsBadOption, IsTooSmall
    <2>4. second > left <=> ~(at + second <= size)
      BY <1>1
    <2> QED BY <1>1, <1>3, <2>1, <2>2, <2>3, <2>4 DEF IsSound
  <1> QED BY <1>1, <1>6, <1>7, <1>8

LEMMA ReceiveOptions == IInv /\ Receive4 => OptionsInv'
  <1> SUFFICES ASSUME IInv, Receive4 PROVE OptionsInv'
    OBVIOUS
  <1>1. PICK o \in Options4 : Begin("ipv4", o, Len(o), 0)
    BY DEF Receive4
  <1>2. size' = Len(packet') /\ at' = 0 /\ outcome' = "walking"
    BY <1>1 DEF Begin
  <1>3. OnlySoundPassed'
    <2> DEFINE places == {0}
    <2>1. places \in SUBSET (0..at')
      BY <1>2
    <2>2. {0, at'} \subseteq places /\ places \ {at'} = {}
      BY <1>2
    <2> HIDE DEF places
    <2> QED BY <2>1, <2>2 DEF OnlySoundPassed
  <1>4. NoOtherWay'
    BY <1>2 DEF NoOtherWay, AreStarts
  <1> QED BY <1>2, <1>3, <1>4 DEF OptionsInv

LEMMA SkipOptions == IInv /\ OptionsInv /\ SkipOption => OptionsInv'
  <1> SUFFICES ASSUME IInv, OptionsInv, SkipOption PROVE OptionsInv'
    OBVIOUS
  <1>1. /\ kind = "ipv4" /\ outcome = "walking" /\ size = Len(packet) /\ at + left = size
        /\ 0 < left /\ at \in Nat /\ left \in Int /\ size \in Nat /\ TypeOK
        /\ OnlySoundPassed /\ NoOtherWay
    BY DEF SkipOption, AtOption, IInv, SumsUp, TypeOK, OptionsInv
  <1>2. IsSound(at) /\ NextOption(at) = at + OptionSize(at)
    BY <1>1, BadIsUnsound DEF SkipOption
  <1>3. at' = NextOption(at) /\ UNCHANGED <<kind, packet, size, outcome>>
    BY <1>2 DEF SkipOption
  <1>4. IInv'
    BY OptionsKeep
  <1>5. at' \in Nat /\ at < at'
    <2>1. at' \in Nat
      BY <1>4 DEF IInv, TypeOK
    <2>2. PICK n \in 0..255 : n = ByteAt(at + 1)
      <3>1. at + 1 \in Nat /\ packet \in Options4
        BY <1>1 DEF TypeOK
      <3> QED BY <3>1, ByteTyped
    <2>3. OptionSize(at) = 1 \/ (OptionSize(at) = n /\ 2 <= n)
      BY <1>1, <2>2 DEF SkipOption, IsBadOption, OptionSize, IsTooSmall
    <2> QED BY <1>1, <1>2, <1>3, <2>1, <2>3
  <1>6. /\ \A k : IsSound(k)' <=> IsSound(k)
        /\ \A k : NextOption(k)' = NextOption(k)
        /\ \A places : AreStarts(places)' <=> AreStarts(places)
    BY <1>3 DEF IsSound, IsWhole, NextOption, AreStarts
  <1>7. OnlySoundPassed'
    <2>1. PICK places \in SUBSET (0..at) :
             /\ {0, at} \subseteq places
             /\ \A k \in places \ {at} : IsSound(k) /\ NextOption(k) \in places
      BY <1>1 DEF OnlySoundPassed
    <2> DEFINE more == places \cup {at'}
    <2>2. more \in SUBSET (0..at')
      BY <1>1, <1>5
    <2>3. {0, at'} \subseteq more
      BY <2>1
    <2>4. ASSUME NEW k \in more \ {at'} PROVE IsSound(k) /\ NextOption(k) \in more
      <3>1. CASE k = at
        BY <3>1, <1>2, <1>3
      <3>2. CASE k # at
        BY <3>2, <2>1, <2>4
      <3> QED BY <3>1, <3>2
    <2>5. \A k \in more \ {at'} : IsSound(k)' /\ NextOption(k)' \in more
      BY <2>4, <1>6
    <2> HIDE DEF more
    <2> QED BY <2>2, <2>3, <2>5 DEF OnlySoundPassed
  <1>8. NoOtherWay'
    <2> SUFFICES ASSUME NEW places \in SUBSET (0..size), AreStarts(places)
                 PROVE  NextOption(at) \in places
      BY <1>3, <1>6 DEF NoOtherWay
    <2>1. at \in places /\ at # size
      BY <1>1 DEF NoOtherWay
    <2> QED BY <2>1 DEF AreStarts
  <1> QED BY <1>1, <1>3, <1>7, <1>8 DEF OptionsInv

LEMMA OptionsEnd == IInv /\ OptionsInv /\ (BadOption \/ EndOfOptions) => OptionsInv'
  <1> SUFFICES ASSUME IInv, OptionsInv, BadOption \/ EndOfOptions PROVE OptionsInv'
    OBVIOUS
  <1>1. /\ kind = "ipv4" /\ outcome = "walking" /\ size = Len(packet) /\ at + left = size
        /\ 0 <= left /\ at \in Nat /\ left \in Int /\ size \in Nat /\ TypeOK
        /\ OnlySoundPassed /\ NoOtherWay
    BY DEF BadOption, EndOfOptions, AtOption, IInv, SumsUp, TypeOK, OptionsInv
  <1>2. UNCHANGED <<kind, packet, size>>
    BY DEF BadOption, EndOfOptions, Reject
  <1>3. \A places : AreStarts(places)' <=> AreStarts(places)
    BY <1>2 DEF IsSound, IsWhole, NextOption, AreStarts
  <1>4. ASSUME BadOption PROVE OptionsInv'
    <2>1. 0 < left /\ at # size /\ ~IsSound(at)
      BY <1>1, <1>4, BadIsUnsound DEF BadOption, AtOption
    <2>2. ~\E places \in SUBSET (0..size) : AreStarts(places)
      BY <1>1, <2>1 DEF NoOtherWay, AreStarts
    <2>3. outcome' = "rejected"
      BY <1>4 DEF BadOption, Reject
    <2> QED BY <1>1, <1>2, <1>3, <2>2, <2>3 DEF OptionsInv
  <1>5. ASSUME EndOfOptions PROVE OptionsInv'
    <2>1. at = size
      BY <1>1, <1>5 DEF EndOfOptions
    <2>2. \E places \in SUBSET (0..size) : AreStarts(places)
      BY <1>1, <2>1 DEF OnlySoundPassed, AreStarts
    <2>3. outcome' = "accepted"
      BY <1>5 DEF EndOfOptions
    <2> QED BY <1>1, <1>2, <1>3, <2>2, <2>3 DEF OptionsInv
  <1> QED BY <1>4, <1>5

LEMMA OptionsInvHolds == Spec => [](IInv /\ OptionsInv)
  <1>1. Init => OptionsInv
    BY DEF Init, OptionsInv
  <1>2. IInv /\ OptionsInv /\ [Next]_vars => OptionsInv'
    <2> SUFFICES ASSUME IInv, OptionsInv, [Next]_vars PROVE OptionsInv'
      OBVIOUS
    <2>1. CASE Receive4
      BY <2>1, ReceiveOptions
    <2>2. CASE SkipOption
      BY <2>2, SkipOptions
    <2>3. CASE BadOption \/ EndOfOptions
      BY <2>3, OptionsEnd
    <2>4. CASE Receive6 \/ QuoteUnseen \/ Quote \/ Finish
      BY <2>4 DEF Receive6, QuoteUnseen, Quote, Finish, Begin, OptionsInv
    <2>5. CASE StepOver \/ CutOff \/ Refuse \/ EndOfHeaders
      BY <2>5 DEF StepOver, CutOff, Refuse, EndOfHeaders, AtExtension, Reject, OptionsInv
    <2>6. CASE UNCHANGED vars
      BY <2>6 DEF OptionsInv, OnlySoundPassed, NoOtherWay, AreStarts, IsSound, IsWhole, NextOption,
         vars, walk
    <2> QED BY <2>1, <2>2, <2>3, <2>4, <2>5, <2>6 DEF Next, Walk
  <1>3. Spec => []IInv
    BY IInvHolds
  <1> QED BY <1>1, <1>2, <1>3, PTL DEF Spec

-----------------------------------------------------------------------------
\* The options that are let through are exactly those that can be divided into
\* whole ones without a source route (the loop of xlat_4to6.c), whatever bytes
\* they have.
THEOREM OptionsSound == Spec => []OptionsAreSound
  <1>1. IInv /\ OptionsInv => OptionsAreSound
    <2> SUFFICES ASSUME IInv, OptionsInv, kind = "ipv4", outcome # "walking"
                 PROVE  outcome = "accepted" <=> \E places \in SUBSET (0..size) : AreStarts(places)
      BY DEF OptionsAreSound
    <2>1. outcome \in {"rejected", "accepted"}
      BY DEF IInv, TypeOK
    <2> QED BY <2>1 DEF OptionsInv
  <1> QED BY <1>1, OptionsInvHolds, PTL

\* Every variable keeps its type, for all packets and options.
THEOREM TypeCorrect == Spec => []TypeOK
  <1>1. IInv => TypeOK
    BY DEF IInv
  <1> QED BY <1>1, IInvHolds, PTL

\* No walk reads outside of what it walks along: a packet, options, or what an
\* ICMP error quotes, be it part of a packet that was let through or not.
THEOREM NothingReadOutside == Spec => []ReadsInside
  <1>1. IInv => ReadsInside
    BY DEF IInv, SumsUp, ReadsInside
  <1> QED BY <1>1, IInvHolds, PTL

\* A quoted packet that was let through is read like the packet itself.
THEOREM QuotesReadAlike == Spec => []QuoteReadsAlike
  <1>1. IInv => QuoteReadsAlike
    <2> SUFFICES ASSUME IInv, IsKnownQuote PROVE QuoteReadsAlike
      BY DEF QuoteReadsAlike, IsKnownQuote
    <2>1. ASSUME outcome = "accepted"
          PROVE  [at |-> at, header |-> header, fragment |-> fragment] = whole
      <3>1. Place = WholePlace
        BY <2>1 DEF IInv, OnTheWay
      <3>2. at = whole.at /\ header = whole.header /\ fragment = whole.fragment
        BY <3>1 DEF Place, WholePlace
      <3> QED BY <3>2 DEF IInv, OnTheWay, SameWay
    <2> QED BY <2>1 DEF IInv, OnTheWay, QuoteReadsAlike
  <1> QED BY <1>1, IInvHolds, PTL

\* No walk goes round in circles, whatever sizes the headers and options give.
THEOREM EveryWalkAdvances == Spec => WalkAdvances
<1>1. ASSUME IInv, Walk, outcome' = "walking" PROVE left > 0 /\ left' < left
  <2>1. left \in Int /\ at \in Nat
    BY <1>1 DEF IInv, TypeOK
  <2>2. CASE StepOver
    <3>1. left >= 8 /\ kind \in {"ipv6", "quoted"} /\ left' = left - HeaderSize(UnitAt(at))
      BY <2>1, <2>2 DEF StepOver, AtExtension, IsCutOff
    <3>2. HeaderSize(UnitAt(at)) \in Nat /\ HeaderSize(UnitAt(at)) >= 8
      BY <1>1, <2>1, <3>1, UnitTyped DEF IInv, TypeOK, UnitAt
    <3> QED
      BY <2>1, <3>1, <3>2
  <2>3. CASE SkipOption
    <3>1. left > 0 /\ kind = "ipv4" /\ left' = left - OptionSize(at) /\ ~IsBadOption
      BY <2>3 DEF SkipOption, AtOption
    <3>2. ByteAt(at + 1) \in Nat
      BY <1>1, <2>1, <3>1, ByteTyped DEF IInv, TypeOK
    <3>3. OptionSize(at) \in Nat /\ OptionSize(at) > 0
      BY <3>1, <3>2 DEF OptionSize, IsBadOption, IsTooSmall
    <3> QED
      BY <2>1, <3>1, <3>3
  <2>4. CASE CutOff \/ Refuse \/ EndOfHeaders \/ BadOption \/ EndOfOptions
    BY <1>1, <2>4 DEF CutOff, Refuse, EndOfHeaders, BadOption, EndOfOptions, Reject
  <2> QED
    BY <1>1, <2>2, <2>3, <2>4 DEF Walk
<1>2. IInv /\ [Next]_vars => [Walk /\ outcome' = "walking" => left > 0 /\ left' < left]_vars
  BY <1>1
<1> QED
  BY <1>2, IInvHolds, PTL DEF Spec, WalkAdvances

-----------------------------------------------------------------------------
(* Induction over the natural numbers, for sets.                            *)

LEMMA LeastElement ==
    ASSUME NEW S \in SUBSET Nat, S # {}
    PROVE  \E n \in S : \A m \in S : n <= m
<1> DEFINE R == {ss \in Nat \X Nat : ss[1] < ss[2]}
<1>0. IsWellFoundedOn(OpToRel(<, Nat), Nat)
  BY NatLessThanWellFounded
<1>1. IsWellFoundedOn(R, Nat)
  BY <1>0 DEF OpToRel
<1> HIDE DEF R
<1>2. PICK n \in S : \A m \in S : ~(<<m, n>> \in R)
  BY <1>1, WFMin
<1>3. ASSUME NEW m \in S PROVE n <= m
  <2>1. m \in Nat /\ n \in Nat
    OBVIOUS
  <2>2. m < n => <<m, n>> \in R
    <3>1. <<m, n>> \in Nat \X Nat
      BY <2>1
    <3>2. <<m, n>>[1] = m /\ <<m, n>>[2] = n
      OBVIOUS
    <3> QED
      BY <3>1, <3>2 DEF R
  <2> QED
    BY <1>2, <2>1, <2>2
<1> QED
  BY <1>3

LEMMA StrongInduction ==
    ASSUME NEW S, \A n \in Nat : (\A m \in Nat : m < n => m \in S) => n \in S
    PROVE  Nat \subseteq S
<1> SUFFICES ASSUME Nat \ S # {} PROVE FALSE
  OBVIOUS
<1>1. PICK n \in Nat \ S : \A m \in Nat \ S : n <= m
  <2>1. Nat \ S \in SUBSET Nat
    OBVIOUS
  <2> QED
    BY <2>1, LeastElement
<1>2. ASSUME NEW m \in Nat, m < n PROVE m \in S
  BY <1>1, <1>2
<1> QED
  BY <1>1, <1>2

LEMMA Induction ==
    ASSUME NEW S, 0 \in S, \A n \in Nat : n \in S => n + 1 \in S
    PROVE  Nat \subseteq S
<1>1. ASSUME NEW n \in Nat, \A m \in Nat : m < n => m \in S PROVE n \in S
  <2>1. CASE n = 0
    BY <2>1
  <2>2. CASE n # 0
    <3>1. n - 1 \in Nat /\ n - 1 < n /\ (n - 1) + 1 = n
      BY <2>2
    <3> QED
      BY <1>1, <3>1
  <2> QED
    BY <2>1, <2>2
<1> QED
  BY <1>1, StrongInduction

\* A recursive function on 0..n exists.
LEMMA Recursion ==
    ASSUME NEW n \in Nat, NEW step \in [1..n -> [Int -> Int]]
    PROVE  \E f \in [0..n -> Int] : f[0] = 0 /\ \A i \in 1..n : f[i] = step[i][f[i - 1]]
<1> DEFINE Law(m, f) == f[0] = 0 /\ \A i \in 1..m : f[i] = step[i][f[i - 1]]
           Done(m) == m <= n => \E f \in [0..m -> Int] : Law(m, f)
<1>1. Done(0)
  <2>1. [i \in 0..0 |-> 0] \in [0..0 -> Int] /\ Law(0, [i \in 0..0 |-> 0])
    OBVIOUS
  <2> QED
    BY <2>1
<1>2. ASSUME NEW m \in Nat, Done(m) PROVE Done(m + 1)
  <2> HIDE DEF Law
  <2> SUFFICES ASSUME m + 1 <= n PROVE \E f \in [0..(m + 1) -> Int] : Law(m + 1, f)
    OBVIOUS
  <2>1. PICK f \in [0..m -> Int] : Law(m, f)
    BY <1>2
  <2> DEFINE g == [i \in 0..(m + 1) |-> IF i = m + 1 THEN step[m + 1][f[m]] ELSE f[i]]
  <2>2. m + 1 \in 1..n /\ m \in 0..m
    OBVIOUS
  <2>3. step[m + 1][f[m]] \in Int
    BY <2>2
  <2>4. g \in [0..(m + 1) -> Int]
    BY <2>3
  <2>5. g[0] = 0
    BY <2>1 DEF Law
  <2>6. ASSUME NEW i \in 1..(m + 1) PROVE g[i] = step[i][g[i - 1]]
    <3>1. CASE i = m + 1
      BY <3>1
    <3>2. CASE i # m + 1
      <4>1. i \in 1..m /\ i \in 0..(m + 1) /\ i - 1 \in 0..(m + 1) /\ i - 1 # m + 1
        BY <3>2
      <4>2. g[i] = f[i] /\ g[i - 1] = f[i - 1]
        BY <4>1, <3>2
      <4> QED
        BY <2>1, <4>1, <4>2 DEF Law
    <3> QED
      BY <3>1, <3>2
  <2> HIDE DEF g
  <2>7. Law(m + 1, g)
    BY <2>5, <2>6 DEF Law
  <2> QED
    BY <2>4, <2>7
<1>3. Done(n)
  <2> HIDE DEF Done
  <2> DEFINE S == {m \in Nat : Done(m)}
  <2>1. 0 \in S
    BY <1>1
  <2>2. \A m \in Nat : m \in S => m + 1 \in S
    BY <1>2
  <2> HIDE DEF S
  <2>3. n \in S
    BY <2>1, <2>2, Induction
  <2> QED
    BY <2>3 DEF S
<1> HIDE DEF Law
<1>4. \E f \in [0..n -> Int] : Law(n, f)
  BY <1>3
<1> QED
  BY <1>4 DEF Law

-----------------------------------------------------------------------------
(* The sum of RFC 1071, in network byte order.                              *)

Ones == WORD - 1
Weight(i) == IF i % 2 = 1 THEN BYTE ELSE 1

LEMMA Width == BYTE \in Nat /\ BYTE >= 4 /\ LittleEndian \in BOOLEAN
BY ChecksumsAssumption, IntegrityAssumption

LEMMA WeightTyped == ASSUME NEW i \in Int PROVE Weight(i) \in Nat /\ Weight(i) >= 1
BY Width DEF Weight

LEMMA ByteOfSeq == ASSUME NEW s \in Seq(Bytes), NEW i \in 1..Len(s) PROVE s[i] \in Bytes /\ s[i] \in Nat
BY Width DEF Bytes

LEMMA Product == ASSUME NEW a \in Nat, NEW b \in Nat PROVE a * b \in Nat
OBVIOUS

\* The sums along the way to Total.
IsTotal(f, s) ==
    /\ f \in [0..Len(s) -> Nat]
    /\ f[0] = 0
    /\ \A i \in 1..Len(s) : f[i] = f[i - 1] + s[i] * Weight(i)

LEMMA TotalIs ==
    ASSUME NEW s \in Seq(Bytes)
    PROVE  \E f : IsTotal(f, s) /\ Total(s) = f[Len(s)]
<1> DEFINE n == Len(s)
           Law(f) == f = [i \in 0..n |-> IF i = 0 THEN 0
                                        ELSE f[i - 1] + s[i] * (IF i % 2 = 1 THEN BYTE ELSE 1)]
           step == [i \in 1..n |-> [x \in Int |-> x + s[i] * Weight(i)]]
<1>1. n \in Nat
  OBVIOUS
<1>2. step \in [1..n -> [Int -> Int]]
  <2>1. ASSUME NEW i \in 1..n PROVE s[i] * Weight(i) \in Nat
    BY Product, WeightTyped, ByteOfSeq
  <2> QED
    BY <2>1
<1>3. PICK f \in [0..n -> Int] : f[0] = 0 /\ \A i \in 1..n : f[i] = step[i][f[i - 1]]
  <2> HIDE DEF step, n
  <2> QED
    BY <1>1, <1>2, Recursion
<1>4. ASSUME NEW i \in 1..n PROVE f[i] = f[i - 1] + s[i] * Weight(i)
  <2>1. i - 1 \in 0..n
    OBVIOUS
  <2> QED
    BY <2>1, <1>3
<1>5. Law(f)
  <2>1. f = [i \in 0..n |-> f[i]]
    OBVIOUS
  <2>2. ASSUME NEW i \in 0..n
        PROVE  f[i] = IF i = 0 THEN 0 ELSE f[i - 1] + s[i] * (IF i % 2 = 1 THEN BYTE ELSE 1)
    <3>1. i # 0 => i \in 1..n
      OBVIOUS
    <3> QED
      BY <3>1, <1>3, <1>4 DEF Weight
  <2> QED
    BY <2>1, <2>2
<1> DEFINE total == CHOOSE g : Law(g)
<1>6. Law(total)
  <2> HIDE DEF Law
  <2> QED
    BY <1>5
<1> HIDE DEF step
<1>7. Total(s) = total[n]
  BY DEF Total
<1> HIDE DEF total
<1>8. total[0] = 0 /\ \A i \in 1..n : total[i] = total[i - 1] + s[i] * Weight(i)
  <2>1. 0 \in 0..n /\ \A i \in 1..n : i \in 0..n /\ i # 0
    OBVIOUS
  <2> QED
    BY <1>6, <2>1, Zenon DEF Weight
<1>9. \A i \in 0..n : total[i] \in Nat
  <2> DEFINE Done(m) == m <= n => total[m] \in Nat
             S == {m \in Nat : Done(m)}
  <2>1. Done(0)
    BY <1>8
  <2>2. ASSUME NEW m \in Nat, Done(m) PROVE Done(m + 1)
    <3> SUFFICES ASSUME m + 1 <= n PROVE total[m + 1] \in Nat
      OBVIOUS
    <3>1. s[m + 1] * Weight(m + 1) \in Nat
      BY Product, WeightTyped, ByteOfSeq
    <3>2. m + 1 \in 1..n /\ (m + 1) - 1 = m
      OBVIOUS
    <3> QED
      BY <2>2, <3>1, <3>2, <1>8
  <2> HIDE DEF Done
  <2>3. Nat \subseteq S
    BY <2>1, <2>2, Induction
  <2> QED
    BY <2>3 DEF Done
<1>10. IsTotal(total, s)
  <2>1. total = [i \in 0..n |-> total[i]]
    BY <1>6
  <2> QED
    BY <2>1, <1>8, <1>9 DEF IsTotal
<1> QED
  BY <1>7, <1>10

LEMMA WeighedByte ==
    ASSUME NEW s \in Seq(Bytes), NEW i \in 1..Len(s)
    PROVE  s[i] * Weight(i) \in Nat
<1>1. s[i] \in Nat /\ Weight(i) \in Nat
  BY ByteOfSeq, WeightTyped
<1> QED
  BY <1>1, Product

LEMMA Parity == ASSUME NEW a \in Nat, NEW b \in Nat, a % 2 = 0 PROVE (a + b) % 2 = b % 2
OBVIOUS

LEMMA TotalTyped == ASSUME NEW s \in Seq(Bytes) PROVE Total(s) \in Nat
<1>1. PICK f : IsTotal(f, s) /\ Total(s) = f[Len(s)]
  BY TotalIs
<1>2. Len(s) \in 0..Len(s)
  OBVIOUS
<1> QED
  BY <1>1, <1>2 DEF IsTotal

LEMMA TotalEmpty == ASSUME NEW s \in Seq(Bytes), Len(s) = 0 PROVE Total(s) = 0
BY TotalIs DEF IsTotal

\* What follows an even number of bytes has the same places in its words.
LEMMA TotalConcat ==
    ASSUME NEW s \in Seq(Bytes), NEW t \in Seq(Bytes), Len(s) % 2 = 0
    PROVE  Total(s \o t) = Total(s) + Total(t)
<1>1. PICK f : IsTotal(f, s) /\ Total(s) = f[Len(s)]
  BY TotalIs
<1>2. PICK g : IsTotal(g, t) /\ Total(t) = g[Len(t)]
  BY TotalIs
<1>3. s \o t \in Seq(Bytes) /\ Len(s \o t) = Len(s) + Len(t)
  OBVIOUS
<1>4. PICK h : IsTotal(h, s \o t) /\ Total(s \o t) = h[Len(s \o t)]
  BY <1>3, TotalIs
<1>5. /\ Len(s) \in Nat /\ Len(t) \in Nat
      /\ \A i \in 1..Len(s) : (s \o t)[i] = s[i]
      /\ \A i \in 1..Len(t) : (s \o t)[Len(s) + i] = t[i]
  OBVIOUS
<1>6. \A m \in Nat : m <= Len(s) => h[m] = f[m]
  <2> DEFINE Done(m) == m <= Len(s) => h[m] = f[m]
             S == {m \in Nat : Done(m)}
  <2>1. Done(0)
    BY <1>1, <1>4 DEF IsTotal
  <2>2. ASSUME NEW m \in Nat, Done(m) PROVE Done(m + 1)
    <3> SUFFICES ASSUME m + 1 <= Len(s) PROVE h[m + 1] = f[m + 1]
      OBVIOUS
    <3>1. m + 1 \in 1..Len(s) /\ m + 1 \in 1..Len(s \o t) /\ (m + 1) - 1 = m
      BY <1>3
    <3>2. h[m + 1] = h[m] + (s \o t)[m + 1] * Weight(m + 1)
      BY <3>1, <1>4 DEF IsTotal
    <3>3. f[m + 1] = f[m] + s[m + 1] * Weight(m + 1)
      BY <3>1, <1>1 DEF IsTotal
    <3> QED
      BY <2>2, <3>1, <3>2, <3>3, <1>5
  <2> HIDE DEF Done
  <2>3. 0 \in S /\ \A m \in Nat : m \in S => m + 1 \in S
    BY <2>1, <2>2
  <2> HIDE DEF S
  <2>4. Nat \subseteq S
    BY <2>3, Induction
  <2> QED
    BY <2>4 DEF S, Done
<1>7. \A m \in Nat : m <= Len(t) => h[Len(s) + m] = f[Len(s)] + g[m]
  <2> DEFINE Done(m) == m <= Len(t) => h[Len(s) + m] = f[Len(s)] + g[m]
             S == {m \in Nat : Done(m)}
  <2>0. f[Len(s)] \in Nat /\ \A m \in Nat : m <= Len(t) => g[m] \in Nat
    <3>1. Len(s) \in 0..Len(s) /\ \A m \in Nat : m <= Len(t) => m \in 0..Len(t)
      BY <1>5
    <3> QED
      BY <3>1, <1>1, <1>2 DEF IsTotal
  <2>1. Done(0)
    <3>1. g[0] = 0 /\ Len(s) + 0 = Len(s) /\ f[Len(s)] + 0 = f[Len(s)]
      BY <1>2, <1>5, <2>0 DEF IsTotal
    <3>2. h[Len(s)] = f[Len(s)]
      BY <1>5, <1>6
    <3> QED
      BY <3>1, <3>2
  <2>2. ASSUME NEW m \in Nat, Done(m) PROVE Done(m + 1)
    <3> SUFFICES ASSUME m + 1 <= Len(t)
                 PROVE  h[Len(s) + (m + 1)] = f[Len(s)] + g[m + 1]
      OBVIOUS
    <3>1. /\ m + 1 \in 1..Len(t) /\ (m + 1) - 1 = m
          /\ Len(s) + (m + 1) \in 1..Len(s \o t) /\ (Len(s) + (m + 1)) - 1 = Len(s) + m
      BY <1>3, <1>5
    <3>2. h[Len(s) + (m + 1)] = h[Len(s) + m] + (s \o t)[Len(s) + (m + 1)] * Weight(Len(s) + (m + 1))
      BY <3>1, <1>4 DEF IsTotal
    <3>3. g[m + 1] = g[m] + t[m + 1] * Weight(m + 1)
      BY <3>1, <1>2 DEF IsTotal
    <3>4. Weight(Len(s) + (m + 1)) = Weight(m + 1)
      <4>1. (Len(s) + (m + 1)) % 2 = (m + 1) % 2
        BY <1>5, Parity
      <4> QED
        BY <4>1 DEF Weight
    <3>5. t[m + 1] * Weight(m + 1) \in Nat
      BY <3>1, WeighedByte
    <3>6. h[Len(s) + m] = f[Len(s)] + g[m] /\ g[m] \in Nat
      BY <2>2, <2>0, <3>1
    <3>7. (s \o t)[Len(s) + (m + 1)] = t[m + 1]
      BY <3>1, <1>5
    <3> QED
      BY <3>2, <3>3, <3>4, <3>5, <3>6, <3>7, <2>0
  <2> HIDE DEF Done
  <2>3. 0 \in S /\ \A m \in Nat : m \in S => m + 1 \in S
    BY <2>1, <2>2
  <2> HIDE DEF S
  <2>4. Nat \subseteq S
    BY <2>3, Induction
  <2> QED
    BY <2>4 DEF S, Done
<1> QED
  BY <1>1, <1>2, <1>3, <1>4, <1>5, <1>7

\* The change of one byte.
LEMMA TotalChange ==
    ASSUME NEW s \in Seq(Bytes), NEW k \in 1..Len(s), NEW b \in Bytes
    PROVE  Total([s EXCEPT ![k] = b]) = Total(s) + (b - s[k]) * Weight(k)
<1> DEFINE t == [s EXCEPT ![k] = b]
<1>1. PICK f : IsTotal(f, s) /\ Total(s) = f[Len(s)]
  BY TotalIs
<1>2. /\ t \in Seq(Bytes) /\ Len(t) = Len(s) /\ Len(s) \in Nat /\ k \in Nat
      /\ t[k] = b /\ \A i \in 1..Len(s) : i # k => t[i] = s[i]
  OBVIOUS
<1>3. PICK g : IsTotal(g, t) /\ Total(t) = g[Len(t)]
  <2> HIDE DEF t
  <2> QED
    BY <1>2, TotalIs
<1> HIDE DEF t
<1>4. /\ s[k] \in Nat /\ b \in Nat /\ Weight(k) \in Nat
      /\ s[k] * Weight(k) \in Nat /\ b * Weight(k) \in Nat
      /\ (b - s[k]) * Weight(k) = b * Weight(k) - s[k] * Weight(k)
  <2>1. s[k] \in Nat /\ b \in Nat /\ Weight(k) \in Nat
    BY ByteOfSeq, WeightTyped, Width DEF Bytes
  <2>2. ASSUME NEW x \in Nat, NEW y \in Nat, NEW w \in Nat
        PROVE  x * w \in Nat /\ y * w \in Nat /\ (x - y) * w = x * w - y * w
    OBVIOUS
  <2> HIDE DEF Weight
  <2> QED
    BY <2>1, <2>2
<1>5. \A m \in Nat : m <= Len(s) =>
        g[m] = f[m] + (IF m < k THEN 0 ELSE b * Weight(k) - s[k] * Weight(k))
  <2> DEFINE Done(m) == m <= Len(s) =>
                   g[m] = f[m] + (IF m < k THEN 0 ELSE b * Weight(k) - s[k] * Weight(k))
             S == {m \in Nat : Done(m)}
  <2>0. \A m \in Nat : m <= Len(s) => f[m] \in Nat
    BY <1>1 DEF IsTotal
  <2>1. Done(0)
    BY <1>1, <1>3, <1>2 DEF IsTotal
  <2>2. ASSUME NEW m \in Nat, Done(m) PROVE Done(m + 1)
    <3> SUFFICES ASSUME m + 1 <= Len(s)
                 PROVE  g[m + 1] = f[m + 1] + (IF m + 1 < k THEN 0 ELSE b * Weight(k) - s[k] * Weight(k))
      OBVIOUS
    <3>1. /\ m + 1 \in 1..Len(s) /\ (m + 1) - 1 = m /\ m + 1 \in 1..Len(t)
      BY <1>2
    <3>2. g[m + 1] = g[m] + t[m + 1] * Weight(m + 1)
      BY <3>1, <1>3 DEF IsTotal
    <3>3. f[m + 1] = f[m] + s[m + 1] * Weight(m + 1)
      BY <3>1, <1>1 DEF IsTotal
    <3>5. f[m] \in Nat /\ g[m] = f[m] + (IF m < k THEN 0 ELSE b * Weight(k) - s[k] * Weight(k))
      BY <2>2, <2>0, <3>1
    <3>6. CASE m + 1 = k
      <4>1. t[m + 1] = b /\ m < k /\ ~(m + 1 < k)
        BY <3>6, <1>2
      <4> QED
        BY <3>2, <3>3, <3>5, <3>6, <4>1, <1>4
    <3>7. CASE m + 1 # k
      <4>1. t[m + 1] = s[m + 1] /\ (m < k <=> m + 1 < k)
        BY <3>7, <3>1, <1>2
      <4>2. s[m + 1] * Weight(m + 1) \in Nat
        BY <3>1, WeighedByte
      <4> QED
        BY <3>2, <3>3, <3>5, <4>1, <4>2, <1>4
    <3> QED
      BY <3>6, <3>7
  <2> HIDE DEF Done
  <2>3. 0 \in S /\ \A m \in Nat : m \in S => m + 1 \in S
    BY <2>1, <2>2
  <2> HIDE DEF S
  <2>4. Nat \subseteq S
    BY <2>3, Induction
  <2> QED
    BY <2>4 DEF S, Done
<1>6. ~(Len(s) < k)
  OBVIOUS
<1>7. Total(t) = Total(s) + (b - s[k]) * Weight(k)
  <2>1. g[Len(s)] = f[Len(s)] + (b * Weight(k) - s[k] * Weight(k))
    BY <1>2, <1>5, <1>6
  <2> QED
    BY <2>1, <1>1, <1>2, <1>3, <1>4
<1> QED
  BY <1>7 DEF t

LEMMA TotalOfTwo ==
    ASSUME NEW a \in Bytes, NEW b \in Bytes
    PROVE  Total(<<a, b>>) = BYTE * a + b
<1>1. <<a, b>> \in Seq(Bytes) /\ Len(<<a, b>>) = 2 /\ <<a, b>>[1] = a /\ <<a, b>>[2] = b
  OBVIOUS
<1>2. PICK f : IsTotal(f, <<a, b>>) /\ Total(<<a, b>>) = f[2]
  BY <1>1, TotalIs
<1>3. Weight(1) = BYTE /\ Weight(2) = 1 /\ a \in Nat /\ b \in Nat /\ BYTE \in Nat
  BY Width DEF Weight, Bytes
<1>4. f[0] = 0 /\ f[1] = f[0] + a * BYTE /\ f[2] = f[1] + b * 1
  <2>1. 1 \in 1..2 /\ 2 \in 1..2 /\ 1 - 1 = 0 /\ 2 - 1 = 1
    OBVIOUS
  <2> QED
    BY <1>1, <1>2, <1>3, <2>1 DEF IsTotal
<1> QED
  BY <1>2, <1>3, <1>4

LEMMA TotalOfFour ==
    ASSUME NEW a \in Bytes, NEW b \in Bytes, NEW c \in Bytes, NEW d \in Bytes
    PROVE  Total(<<a, b, c, d>>) = (BYTE * a + b) + (BYTE * c + d)
<1>1. /\ <<a, b>> \in Seq(Bytes) /\ <<c, d>> \in Seq(Bytes)
      /\ Len(<<a, b>>) % 2 = 0
      /\ <<a, b, c, d>> = <<a, b>> \o <<c, d>>
  OBVIOUS
<1> QED
  BY <1>1, TotalConcat, TotalOfTwo

LEMMA TotalFromThird ==
    ASSUME NEW s \in Seq(Bytes), Len(s) >= 2
    PROVE  /\ SubSeq(s, 3, Len(s)) \in Seq(Bytes)
           /\ Total(s) = (BYTE * s[1] + s[2]) + Total(SubSeq(s, 3, Len(s)))
<1>1. /\ SubSeq(s, 3, Len(s)) \in Seq(Bytes)
      /\ s[1] \in Bytes /\ s[2] \in Bytes /\ <<s[1], s[2]>> \in Seq(Bytes)
      /\ Len(<<s[1], s[2]>>) % 2 = 0
  OBVIOUS
<1>2. s = <<s[1], s[2]>> \o SubSeq(s, 3, Len(s))
  OBVIOUS
<1> QED
  BY <1>1, <1>2, TotalConcat, TotalOfTwo

-----------------------------------------------------------------------------
(* Arithmetic modulo Ones.                                                  *)

LEMMA OnesTyped == Ones \in Nat /\ Ones >= 15 /\ WORD = Ones + 1 /\ WORD \in Nat
<1>1. BYTE * BYTE \in Nat /\ BYTE * BYTE >= 16
  BY Width
<1> QED
  BY <1>1 DEF Ones, WORD

Same(a, b) == \E k \in Int : a = b + k * Ones

LEMMA SameItself == ASSUME NEW a \in Int PROVE Same(a, a)
<1>1. 0 \in Int /\ a = a + 0 * Ones
  BY OnesTyped
<1> QED
  BY <1>1 DEF Same

LEMMA SameTurned == ASSUME NEW a \in Int, NEW b \in Int, Same(a, b) PROVE Same(b, a)
<1>1. PICK k \in Int : a = b + k * Ones
  BY DEF Same
<1>2. Ones \in Int
  BY OnesTyped
<1>3. -k \in Int /\ b = a + (-k) * Ones
  BY <1>1, <1>2
<1> QED
  BY <1>3 DEF Same

LEMMA SameChained ==
    ASSUME NEW a \in Int, NEW b \in Int, NEW c \in Int, Same(a, b), Same(b, c)
    PROVE  Same(a, c)
<1>1. PICK k \in Int : a = b + k * Ones
  BY DEF Same
<1>2. PICK j \in Int : b = c + j * Ones
  BY DEF Same
<1>3. Ones \in Int
  BY OnesTyped
<1>4. k + j \in Int /\ a = c + (k + j) * Ones
  BY <1>1, <1>2, <1>3
<1> QED
  BY <1>4 DEF Same

LEMMA SameSum ==
    ASSUME NEW a \in Int, NEW b \in Int, NEW c \in Int, NEW d \in Int, Same(a, b), Same(c, d)
    PROVE  Same(a + c, b + d) /\ Same(a - c, b - d)
<1>1. PICK k \in Int : a = b + k * Ones
  BY DEF Same
<1>2. PICK j \in Int : c = d + j * Ones
  BY DEF Same
<1>3. Ones \in Int
  BY OnesTyped
<1>4. k + j \in Int /\ a + c = (b + d) + (k + j) * Ones
  BY <1>1, <1>2, <1>3
<1>5. k - j \in Int /\ a - c = (b - d) + (k - j) * Ones
  BY <1>1, <1>2, <1>3
<1> QED
  BY <1>4, <1>5 DEF Same

LEMMA SameProduct ==
    ASSUME NEW a \in Int, NEW b \in Int, NEW c \in Int, Same(a, b)
    PROVE  Same(c * a, c * b)
<1>1. PICK k \in Int : a = b + k * Ones
  BY DEF Same
<1>3. Ones \in Int
  BY OnesTyped
<1>4. c * k \in Int /\ c * a = c * b + (c * k) * Ones
  BY <1>1, <1>3
<1> QED
  BY <1>4 DEF Same

LEMMA Division ==
    ASSUME NEW m \in Nat, m > 0, NEW x \in Int
    PROVE  \E q \in Int, r \in Nat : x = q * m + r /\ r = x % m /\ q = x \div m /\ r < m
OBVIOUS

LEMMA SmallMultiple ==
    ASSUME NEW m \in Nat, NEW k \in Int, NEW x \in Int, x = k * m, -m < x, x < m
    PROVE  x = 0
<1>1. k >= 1 => k * m >= m
  OBVIOUS
<1>2. k <= -1 => k * m <= -m
  OBVIOUS
<1>3. k = 0 => k * m = 0
  OBVIOUS
<1> QED
  BY <1>1, <1>2, <1>3

LEMMA SameAsZero ==
    ASSUME NEW a \in Int
    PROVE  /\ a % Ones = 0 <=> Same(a, 0)
           /\ Same(a, 0) /\ -Ones < a /\ a < Ones => a = 0
<1>1. Ones \in Nat /\ Ones > 0 /\ 0 \in Int
  BY OnesTyped
<1>2. PICK q \in Int, r \in Nat : a = q * Ones + r /\ r = a % Ones /\ r < Ones
  BY <1>1, Division
<1>3. a % Ones = 0 => Same(a, 0)
  BY <1>1, <1>2 DEF Same
<1>4. ASSUME Same(a, 0) PROVE a % Ones = 0
  <2>1. PICK k \in Int : a = k * Ones
    BY <1>1, <1>4 DEF Same
  <2>2. (k - q) \in Int /\ r = (k - q) * Ones
    BY <2>1, <1>2, <1>1
  <2> QED
    BY <2>2, <1>1, <1>2, SmallMultiple
<1>5. ASSUME Same(a, 0), -Ones < a, a < Ones PROVE a = 0
  <2>1. PICK k \in Int : a = k * Ones
    BY <1>1, <1>5 DEF Same
  <2> QED
    BY <2>1, <1>1, <1>5, SmallMultiple
<1> QED
  BY <1>3, <1>4, <1>5

\* The factor between sums in the machine's byte order and the network's.
Turn == IF LittleEndian THEN BYTE ELSE 1

LEMMA TurnTyped == Turn \in Nat /\ Turn >= 1
BY Width DEF Turn

LEMMA TurnedTwice == ASSUME NEW a \in Int PROVE Same(Turn * (Turn * a), a)
<1>1. CASE LittleEndian
  <2>1. BYTE * (BYTE * a) = a + a * Ones
    <3>1. BYTE * (BYTE * a) = (BYTE * BYTE) * a
      BY Width
    <3>2. BYTE * BYTE = Ones + 1
      BY OnesTyped DEF WORD
    <3> QED
      BY <3>1, <3>2, OnesTyped
  <2> QED
    BY <1>1, <2>1 DEF Same, Turn
<1>2. CASE ~LittleEndian
  <2>1. 1 * (1 * a) = a
    OBVIOUS
  <2> QED
    BY <1>2, <2>1, SameItself DEF Turn
<1> QED
  BY <1>1, <1>2

LEMMA ZeroProduct ==
    ASSUME NEW a \in Int, NEW c \in Int, Same(a, 0)
    PROVE  Same(c * a, 0)
<1>1. PICK k \in Int : a = 0 + k * Ones
  BY DEF Same
<1>3. Ones \in Int
  BY OnesTyped
<1>4. c * k \in Int /\ c * a = 0 + (c * k) * Ones
  BY <1>1, <1>3
<1> QED
  BY <1>4 DEF Same

LEMMA TurnedZero == ASSUME NEW a \in Int PROVE Same(Turn * a, 0) <=> Same(a, 0)
<1>1. Turn * a \in Int /\ Turn * (Turn * a) \in Int /\ Turn \in Int /\ 0 \in Int
  BY TurnTyped
<1>2. ASSUME Same(Turn * a, 0) PROVE Same(a, 0)
  <2>1. Same(Turn * (Turn * a), 0)
    BY <1>1, <1>2, ZeroProduct
  <2>2. Same(a, Turn * (Turn * a))
    BY <1>1, TurnedTwice, SameTurned
  <2> QED
    BY <2>1, <2>2, <1>1, SameChained, Zenon
<1>3. ASSUME Same(a, 0) PROVE Same(Turn * a, 0)
  BY <1>1, <1>3, ZeroProduct
<1> QED
  BY <1>2, <1>3

LEMMA Ordered ==
    ASSUME NEW a \in Nat, NEW b \in Nat, NEW c \in Nat, a <= b PROVE c * a <= c * b
OBVIOUS

\* A word in the machine's byte order.
LEMMA WordTurned ==
    ASSUME NEW x \in Bytes, NEW y \in Bytes
    PROVE  /\ HostWord(x, y) \in Nat /\ HostWord(x, y) <= Ones
           /\ \E c \in Nat : c <= HostWord(x, y) /\ Turn * (BYTE * x + y) = HostWord(x, y) + c * Ones
           /\ HostWord(x, y) = 0 <=> x = 0 /\ y = 0
<1>1. x \in Nat /\ y \in Nat /\ x <= BYTE - 1 /\ y <= BYTE - 1 /\ BYTE \in Nat /\ BYTE >= 4
  BY Width DEF Bytes
<1>2. /\ BYTE * x \in Nat /\ BYTE * x <= BYTE * (BYTE - 1) /\ BYTE * x >= x
      /\ BYTE * y \in Nat /\ BYTE * y <= BYTE * (BYTE - 1) /\ BYTE * y >= y
  <2>1. BYTE - 1 \in Nat
    BY <1>1
  <2> QED
    BY <1>1, <2>1, Ordered
<1>3. BYTE * (BYTE - 1) + BYTE = Ones + 1
  BY <1>1, OnesTyped DEF WORD
<1>4. CASE LittleEndian
  <2>1. HostWord(x, y) = x + BYTE * y
    BY <1>4 DEF HostWord
  <2>2. BYTE * (BYTE * x + y) = (x + BYTE * y) + x * Ones
    <3>1. BYTE * (BYTE * x + y) = (BYTE * BYTE) * x + BYTE * y
      BY <1>1
    <3>2. BYTE * BYTE = Ones + 1
      BY OnesTyped DEF WORD
    <3>3. (Ones + 1) * x = x + x * Ones
      BY OnesTyped, <1>1
    <3> HIDE DEF Ones
    <3> QED
      BY <3>1, <3>2, <3>3, <1>1, <1>2, OnesTyped
  <2>3. HostWord(x, y) \in Nat /\ HostWord(x, y) <= Ones
    BY <1>1, <1>2, <1>3, <2>1, OnesTyped
  <2>4. x <= HostWord(x, y) /\ Turn * (BYTE * x + y) = HostWord(x, y) + x * Ones
    BY <1>1, <1>2, <1>4, <2>1, <2>2 DEF Turn
  <2>5. HostWord(x, y) = 0 <=> x = 0 /\ y = 0
    BY <1>1, <1>2, <2>1
  <2> QED
    BY <1>1, <2>3, <2>4, <2>5
<1>5. CASE ~LittleEndian
  <2>1. HostWord(x, y) = BYTE * x + y
    BY <1>5 DEF HostWord
  <2>2. 1 * (BYTE * x + y) = (BYTE * x + y) + 0 * Ones
    BY <1>1, <1>2, OnesTyped
  <2>3. \E c \in Nat : c <= HostWord(x, y) /\ Turn * (BYTE * x + y) = HostWord(x, y) + c * Ones
    <3>1. 0 \in Nat /\ 0 <= HostWord(x, y) /\ Turn * (BYTE * x + y) = HostWord(x, y) + 0 * Ones
      BY <1>1, <1>2, <1>5, <2>1, <2>2 DEF Turn
    <3> QED
      BY <3>1
  <2>4. HostWord(x, y) \in Nat /\ HostWord(x, y) <= Ones
    BY <1>1, <1>2, <1>3, <2>1, OnesTyped
  <2>5. HostWord(x, y) = 0 <=> x = 0 /\ y = 0
    BY <1>1, <1>2, <2>1
  <2> QED
    BY <2>3, <2>4, <2>5
<1> QED
  BY <1>4, <1>5

-----------------------------------------------------------------------------
(* The sum of the code, in the byte order of the machine.                   *)

\* The sums along the way to Sum16.
IsSum16(f, s) ==
    /\ f \in [0..(Len(s) \div 2) -> Int]
    /\ f[0] = 0
    /\ \A i \in 1..(Len(s) \div 2) : f[i] = (f[i - 1] + HostWord(s[2 * i - 1], s[2 * i])) % DOUBLE

LEMMA Halves ==
    ASSUME NEW n \in Nat
    PROVE  /\ n \div 2 \in Nat
           /\ n % 2 = 0 => n = 2 * (n \div 2)
           /\ n % 2 = 1 => n = 2 * (n \div 2) + 1
           /\ n % 2 \in {0, 1}
OBVIOUS

LEMMA PlaceInWord ==
    ASSUME NEW n \in Nat, NEW i \in 1..(n \div 2)
    PROVE  2 * i - 1 \in 1..n /\ 2 * i \in 1..n
BY Halves

LEMMA DoubleTyped == DOUBLE \in Nat /\ DOUBLE > Ones
<1>1. (Ones + 1) * (Ones + 1) \in Nat /\ (Ones + 1) * (Ones + 1) > Ones
  BY OnesTyped
<1> QED
  BY <1>1, OnesTyped DEF DOUBLE

LEMMA RestTyped ==
    ASSUME NEW x \in Int
    PROVE  x % DOUBLE \in Int /\ (0 <= x /\ x < DOUBLE => x % DOUBLE = x)
<1>1. DOUBLE \in Nat /\ DOUBLE > 0
  BY DoubleTyped, OnesTyped
<1>2. PICK q \in Int, r \in Nat : x = q * DOUBLE + r /\ r = x % DOUBLE /\ r < DOUBLE
  BY <1>1, Division
<1>3. ASSUME 0 <= x, x < DOUBLE PROVE x % DOUBLE = x
  <2>1. x - r = q * DOUBLE /\ -DOUBLE < x - r /\ x - r < DOUBLE /\ x - r \in Int
    BY <1>1, <1>2, <1>3
  <2>2. x - r = 0
    BY <2>1, <1>1, SmallMultiple
  <2> QED
    BY <1>2, <2>2
<1> QED
  BY <1>2, <1>3

LEMMA Sum16Is ==
    ASSUME NEW s \in Seq(Bytes)
    PROVE  \E f : /\ IsSum16(f, s)
                  /\ Sum16(s) = (f[Len(s) \div 2]
                                 + (IF Len(s) % 2 = 1 THEN OddByte(s[Len(s)]) ELSE 0)) % DOUBLE
<1> DEFINE n == Len(s)
           h == n \div 2
           Law(f) == f = [i \in 0..h |-> IF i = 0 THEN 0
                            ELSE (f[i - 1] + HostWord(s[2 * i - 1], s[2 * i])) % DOUBLE]
           step == [i \in 1..h |-> [x \in Int |-> (x + HostWord(s[2 * i - 1], s[2 * i])) % DOUBLE]]
<1>1. n \in Nat /\ h \in Nat
  BY Halves
<1>2. step \in [1..h -> [Int -> Int]]
  <2>1. ASSUME NEW i \in 1..h, NEW x \in Int
        PROVE  (x + HostWord(s[2 * i - 1], s[2 * i])) % DOUBLE \in Int
    <3>1. s[2 * i - 1] \in Bytes /\ s[2 * i] \in Bytes
      BY PlaceInWord, ByteOfSeq
    <3>2. HostWord(s[2 * i - 1], s[2 * i]) \in Nat
      BY <3>1, WordTurned
    <3> QED
      BY <3>2, RestTyped
  <2> QED
    BY <2>1
<1>3. PICK f \in [0..h -> Int] : f[0] = 0 /\ \A i \in 1..h : f[i] = step[i][f[i - 1]]
  <2> HIDE DEF step, h
  <2> QED
    BY <1>1, <1>2, Recursion
<1>4. ASSUME NEW i \in 1..h PROVE f[i] = (f[i - 1] + HostWord(s[2 * i - 1], s[2 * i])) % DOUBLE
  <2>1. i - 1 \in 0..h
    OBVIOUS
  <2> QED
    BY <2>1, <1>3
<1> HIDE DEF step
<1>5. Law(f)
  <2>1. f = [i \in 0..h |-> f[i]]
    OBVIOUS
  <2>2. ASSUME NEW i \in 0..h
        PROVE  f[i] = IF i = 0 THEN 0
                      ELSE (f[i - 1] + HostWord(s[2 * i - 1], s[2 * i])) % DOUBLE
    <3>1. i # 0 => i \in 1..h
      OBVIOUS
    <3> QED
      BY <3>1, <1>3, <1>4
  <2> QED
    BY <2>1, <2>2
<1> DEFINE sum == CHOOSE g : Law(g)
<1>6. Law(sum)
  <2> HIDE DEF Law
  <2> QED
    BY <1>5
<1>7. Sum16(s) = (sum[h] + (IF n % 2 = 1 THEN OddByte(s[n]) ELSE 0)) % DOUBLE
  BY DEF Sum16
<1> HIDE DEF sum
<1>8. sum[0] = 0 /\ \A i \in 1..h : sum[i] = (sum[i - 1] + HostWord(s[2 * i - 1], s[2 * i])) % DOUBLE
  <2>1. 0 \in 0..h /\ \A i \in 1..h : i \in 0..h /\ i # 0
    OBVIOUS
  <2> QED
    BY <1>6, <2>1, Zenon
<1>9. \A m \in Nat : m <= h => sum[m] \in Int
  <2> DEFINE Done(m) == m <= h => sum[m] \in Int
             S == {m \in Nat : Done(m)}
  <2>1. Done(0)
    BY <1>8
  <2>2. ASSUME NEW m \in Nat, Done(m) PROVE Done(m + 1)
    <3> SUFFICES ASSUME m + 1 <= h PROVE sum[m + 1] \in Int
      OBVIOUS
    <3>1. m + 1 \in 1..h /\ (m + 1) - 1 = m
      OBVIOUS
    <3>2. s[2 * (m + 1) - 1] \in Bytes /\ s[2 * (m + 1)] \in Bytes
      BY <3>1, PlaceInWord, ByteOfSeq
    <3>3. HostWord(s[2 * (m + 1) - 1], s[2 * (m + 1)]) \in Nat
      BY <3>2, WordTurned
    <3>4. sum[m] \in Int
      BY <2>2
    <3>5. sum[m] + HostWord(s[2 * (m + 1) - 1], s[2 * (m + 1)]) \in Int
      BY <3>3, <3>4
    <3>6. sum[m + 1] = (sum[m] + HostWord(s[2 * (m + 1) - 1], s[2 * (m + 1)])) % DOUBLE
      BY <3>1, <1>8
    <3> QED
      BY <3>5, <3>6, RestTyped
  <2> HIDE DEF Done
  <2>3. 0 \in S /\ \A m \in Nat : m \in S => m + 1 \in S
    BY <2>1, <2>2
  <2> HIDE DEF S
  <2>4. Nat \subseteq S
    BY <2>3, Induction
  <2> QED
    BY <2>4 DEF S, Done
<1>10. IsSum16(sum, s)
  <2>1. sum = [i \in 0..h |-> sum[i]]
    BY <1>6
  <2>2. \A i \in 0..h : sum[i] \in Int
    BY <1>9
  <2> QED
    BY <2>1, <2>2, <1>8 DEF IsSum16
<1> QED
  BY <1>7, <1>10

LEMMA Scaled ==
    ASSUME NEW m \in Nat, NEW k \in Nat, NEW h \in Nat, k <= h
    PROVE  /\ Ones * (k + 1) = Ones * k + Ones
           /\ Ones * k <= Ones * h
           /\ Ones * (2 * k) = 2 * (Ones * k)
           /\ Ones * k \in Nat
<1>1. ASSUME NEW o \in Nat
      PROVE  /\ o * (k + 1) = o * k + o
             /\ o * k <= o * h
             /\ o * (2 * k) = 2 * (o * k)
             /\ o * k \in Nat
  OBVIOUS
<1> QED
  BY <1>1, OnesTyped

LEMMA TurnOfSum ==
    ASSUME NEW x \in Int, NEW y \in Int
    PROVE  Turn * (x + y) = Turn * x + Turn * y /\ Turn * x \in Int /\ Turn * y \in Int
<1>1. ASSUME NEW t \in Int
      PROVE  t * (x + y) = t * x + t * y /\ t * x \in Int /\ t * y \in Int
  OBVIOUS
<1> QED
  BY <1>1, TurnTyped

LEMMA SumOfMultiples ==
    ASSUME NEW c \in Int, NEW d \in Int
    PROVE  c * Ones + d * Ones = (c + d) * Ones /\ c * Ones \in Int /\ d * Ones \in Int
<1>1. ASSUME NEW o \in Int
      PROVE  c * o + d * o = (c + d) * o /\ c * o \in Int /\ d * o \in Int
  OBVIOUS
<1> QED
  BY <1>1, OnesTyped

LEMMA SmallRest == ASSUME NEW x \in Nat, x < DOUBLE PROVE x % DOUBLE = x
<1>1. x \in Int /\ 0 <= x
  OBVIOUS
<1> QED
  BY <1>1, RestTyped

\* The sum of 16-bit words in the machine's byte order and that of RFC 1071,
\* as long as it does not overflow.
LEMMA Sum16Total ==
    ASSUME NEW s \in Seq(Bytes), Ones * (Len(s) + 1) < 2 * DOUBLE
    PROVE  /\ Sum16(s) \in Nat
           /\ 2 * Sum16(s) <= Ones * (Len(s) + 1)
           /\ \E c \in Nat : c <= Sum16(s) /\ Turn * Total(s) = Sum16(s) + c * Ones
<1> DEFINE n == Len(s)
           h == n \div 2
<1>1. PICK f : /\ IsSum16(f, s)
               /\ Sum16(s) = (f[h] + (IF n % 2 = 1 THEN OddByte(s[n]) ELSE 0)) % DOUBLE
  BY Sum16Is
<1>2. PICK g : IsTotal(g, s) /\ Total(s) = g[n]
  BY TotalIs
<1>3. n \in Nat /\ h \in Nat /\ 2 * h <= n /\ Ones \in Nat /\ DOUBLE \in Nat
  BY Halves, OnesTyped, DoubleTyped
<1>4. \A i \in Nat : i <= h => 2 * (Ones * i) <= Ones * n
  <2>1. ASSUME NEW i \in Nat, i <= h PROVE 2 * (Ones * i) <= Ones * n
    <3>1. 2 * i \in Nat /\ 2 * i <= n
      BY <1>3, <2>1
    <3>2. Ones * (2 * i) <= Ones * n
      BY <3>1, <1>3, Scaled
    <3> QED
      BY <3>2, <2>1, Scaled
  <2> QED
    BY <2>1
<1>5. Ones * (n + 1) = Ones * n + Ones /\ Ones * n \in Nat
  BY <1>3, Scaled
<1>6. ASSUME NEW i \in 1..n PROVE g[i] = g[i - 1] + s[i] * Weight(i)
  BY <1>2, <1>6 DEF IsTotal
<1>7. \A i \in 0..n : g[i] \in Nat
  BY <1>2 DEF IsTotal
<1> DEFINE Good(m) == /\ f[m] \in Nat /\ f[m] <= Ones * m
                      /\ \E c \in Nat : c <= f[m] /\ Turn * g[2 * m] = f[m] + c * Ones
<1> HIDE DEF h
<1>8. \A m \in Nat : m <= h => Good(m)
  <2> DEFINE Done(m) == m <= h => Good(m)
             S == {m \in Nat : Done(m)}
  <2>1. Done(0)
    <3>1. f[0] = 0 /\ g[0] = 0 /\ 2 * 0 = 0
      BY <1>1, <1>2 DEF IsSum16, IsTotal
    <3>2. Ones * 0 = 0 /\ 0 <= 0 /\ Turn * 0 = 0 + 0 * Ones
      BY OnesTyped, TurnTyped
    <3> QED
      BY <3>1, <3>2
  <2>2. ASSUME NEW m \in Nat, Done(m) PROVE Done(m + 1)
    <3> SUFFICES ASSUME m + 1 <= h PROVE Good(m + 1)
      OBVIOUS
    <3>1. Good(m)
      <4> HIDE DEF Good
      <4>1. m <= h
        BY <1>3
      <4> QED
        BY <2>2, <4>1
    <3>2. PICK c \in Nat : c <= f[m] /\ Turn * g[2 * m] = f[m] + c * Ones
      BY <3>1
    <3> DEFINE x == s[2 * (m + 1) - 1]
               y == s[2 * (m + 1)]
               word == HostWord(x, y)
    <3>3. /\ m + 1 \in 1..h /\ (m + 1) - 1 = m
          /\ 2 * (m + 1) \in 1..n /\ 2 * (m + 1) - 1 \in 1..n
          /\ (2 * (m + 1) - 1) - 1 = 2 * m /\ 2 * m \in 0..n
      BY <1>3
    <3>4. x \in Bytes /\ y \in Bytes
      BY <3>3, ByteOfSeq
    <3>5. word \in Nat /\ word <= Ones
      BY <3>4, WordTurned
    <3>6. PICK d \in Nat : d <= word /\ Turn * (BYTE * x + y) = word + d * Ones
      BY <3>4, WordTurned
    <3>7. f[m + 1] = (f[m] + word) % DOUBLE
      <4>1. \A i \in 1..h : f[i] = (f[i - 1] + HostWord(s[2 * i - 1], s[2 * i])) % DOUBLE
        BY <1>1 DEF IsSum16, h
      <4> QED
        BY <4>1, <3>3
    <3>8. f[m + 1] = f[m] + word /\ f[m] + word <= Ones * (m + 1)
      <4>1. f[m] \in Nat /\ f[m] <= Ones * m /\ Ones * m \in Nat
        BY <3>1, <1>3, Scaled
      <4>2. Ones * (m + 1) = Ones * m + Ones
        BY <1>3, Scaled
      <4>3. 2 * (Ones * (m + 1)) <= Ones * n
        BY <1>4, <3>3
      <4>4. f[m] + word \in Int /\ f[m] + word < DOUBLE
        <5> HIDE DEF word
        <5> QED
          BY <4>1, <4>2, <4>3, <3>5, <1>3, <1>5, OnesTyped
      <4>5. (f[m] + word) % DOUBLE = f[m] + word
        <5> HIDE DEF word
        <5>1. f[m] + word \in Nat
          BY <4>1, <3>5
        <5> QED
          BY <5>1, <4>4, SmallRest
      <4>6. f[m] + word <= Ones * m + Ones
        <5> DEFINE o == Ones * m
        <5>1. f[m] \in Nat /\ f[m] <= o /\ o \in Nat /\ Ones \in Nat
          BY <4>1, <1>3
        <5> HIDE DEF o, word
        <5>2. f[m] + word <= o + Ones
          BY <5>1, <3>5
        <5> QED
          BY <5>2 DEF o
      <4> HIDE DEF word
      <4> QED
        BY <4>2, <4>5, <4>6, <3>7, Zenon
    <3>9. g[2 * (m + 1)] = g[2 * m] + (BYTE * x + y)
      <4>1. Weight(2 * (m + 1)) = 1 /\ Weight(2 * (m + 1) - 1) = BYTE
        BY DEF Weight
      <4>2. /\ g[2 * (m + 1)] = g[2 * (m + 1) - 1] + y * 1
            /\ g[2 * (m + 1) - 1] = g[2 * m] + x * BYTE
        BY <1>6, <3>3, <4>1
      <4>3. x \in Nat /\ y \in Nat /\ BYTE \in Nat /\ g[2 * m] \in Nat
        BY <3>3, <3>4, <1>7, Width DEF Bytes
      <4> QED
        BY <4>2, <4>3
    <3>10. c + d \in Nat /\ c + d <= f[m + 1] /\ Turn * g[2 * (m + 1)] = f[m + 1] + (c + d) * Ones
      <4>1. g[2 * m] \in Int /\ BYTE * x + y \in Int
        <5>1. x \in Nat /\ y \in Nat /\ BYTE \in Nat /\ g[2 * m] \in Nat
          BY <3>3, <3>4, <1>7, Width DEF Bytes
        <5> QED
          BY <5>1
      <4>2. Turn * (g[2 * m] + (BYTE * x + y)) = Turn * g[2 * m] + Turn * (BYTE * x + y)
        BY <4>1, TurnOfSum
      <4>3. c * Ones + d * Ones = (c + d) * Ones /\ c * Ones \in Int /\ d * Ones \in Int
        <5>1. c \in Int /\ d \in Int
          OBVIOUS
        <5> QED
          BY <5>1, SumOfMultiples, Zenon
      <4>4. f[m] \in Nat
        BY <3>1
      <4> HIDE DEF word
      <4> QED
        BY <4>2, <4>3, <4>4, <3>2, <3>5, <3>6, <3>8, <3>9
    <3>11. f[m + 1] \in Nat
      BY <3>1, <3>5, <3>8
    <3> QED
      BY <3>8, <3>10, <3>11
  <2> HIDE DEF Done
  <2>3. 0 \in S /\ \A m \in Nat : m \in S => m + 1 \in S
    BY <2>1, <2>2
  <2> HIDE DEF S
  <2>4. Nat \subseteq S
    BY <2>3, Induction
  <2> QED
    BY <2>4 DEF S, Done
<1>9. PICK c \in Nat : c <= f[h] /\ Turn * g[2 * h] = f[h] + c * Ones
  BY <1>3, <1>8
<1>10. f[h] \in Nat /\ f[h] <= Ones * h /\ 2 * (Ones * h) <= Ones * n /\ Ones * h \in Nat
  BY <1>3, <1>4, <1>8, Scaled
<1>11. CASE n % 2 = 0
  <2>1. n = 2 * h
    BY <1>11, <1>3, Halves DEF h
  <2>2. Sum16(s) = f[h] /\ 2 * f[h] <= Ones * (n + 1)
    <3>1. f[h] < DOUBLE /\ 2 * f[h] <= Ones * (n + 1)
      BY <1>3, <1>5, <1>10
    <3>2. Sum16(s) = (f[h] + 0) % DOUBLE /\ f[h] + 0 = f[h]
      BY <1>1, <1>10, <1>11
    <3> QED
      BY <3>1, <3>2, <1>10, SmallRest
  <2> QED
    BY <1>2, <1>9, <1>10, <2>1, <2>2
<1>12. CASE n % 2 = 1
  <2>1. n = 2 * h + 1 /\ n \in 1..n /\ n - 1 = 2 * h /\ 0 \in Bytes /\ 2 * h \in 0..n
    BY <1>12, <1>3, Halves, Width DEF h, Bytes
  <2> DEFINE x == s[n]
             word == HostWord(x, 0)
  <2>2. x \in Bytes
    BY <2>1, ByteOfSeq
  <2>3. word \in Nat /\ word <= Ones
    BY <2>1, <2>2, WordTurned
  <2>4. PICK d \in Nat : d <= word /\ Turn * (BYTE * x + 0) = word + d * Ones
    BY <2>1, <2>2, WordTurned
  <2>5. /\ Sum16(s) = f[h] + word /\ 2 * (f[h] + word) <= Ones * (n + 1)
        /\ f[h] + word \in Nat
    <3>1. Ones * (2 * h + 1) = Ones * (2 * h) + Ones /\ Ones * (2 * h) = 2 * (Ones * h)
      <4>1. 2 * h \in Nat
        BY <1>3
      <4> QED
        BY <4>1, <1>3, Scaled
    <3>2. /\ f[h] + word < DOUBLE /\ 2 * (f[h] + word) <= Ones * (n + 1)
          /\ f[h] + word \in Nat
      <4> HIDE DEF word
      <4> QED
        BY <3>1, <1>3, <1>5, <1>10, <2>1, <2>3, OnesTyped
    <3>3. Sum16(s) = (f[h] + word) % DOUBLE
      BY <1>1, <1>12 DEF OddByte
    <3> HIDE DEF word
    <3> QED
      BY <3>2, <3>3, SmallRest
  <2>6. g[n] = g[2 * h] + (BYTE * x + 0) /\ g[2 * h] \in Int /\ BYTE * x + 0 \in Int
    <3>1. Weight(n) = BYTE
      BY <1>12 DEF Weight
    <3>2. g[n] = g[2 * h] + x * BYTE
      BY <1>6, <2>1, <3>1
    <3>3. x \in Nat /\ BYTE \in Nat /\ g[2 * h] \in Nat
      BY <2>1, <2>2, <1>7, Width DEF Bytes
    <3> QED
      BY <3>2, <3>3
  <2>7. c + d \in Nat /\ c + d <= Sum16(s) /\ Turn * g[n] = Sum16(s) + (c + d) * Ones
    <3>2. Turn * (g[2 * h] + (BYTE * x + 0)) = Turn * g[2 * h] + Turn * (BYTE * x + 0)
      BY <2>6, TurnOfSum
    <3>3. c * Ones + d * Ones = (c + d) * Ones /\ c * Ones \in Int /\ d * Ones \in Int
      <4>1. c \in Int /\ d \in Int
        OBVIOUS
      <4> QED
        BY <4>1, SumOfMultiples, Zenon
    <3>4. Turn * g[n] = (f[h] + c * Ones) + (word + d * Ones)
      <4> HIDE DEF word
      <4>1. BYTE * x + 0 \in Int
        BY <2>6
      <4>2. Turn * g[n] = Turn * g[2 * h] + Turn * (BYTE * x + 0)
        BY <2>6, <3>2, Zenon
      <4> QED
        BY <4>2, <1>9, <2>4, Zenon
    <3>5. c + d \in Nat /\ c + d <= f[h] + word
      <4> HIDE DEF word
      <4> QED
        BY <1>9, <1>10, <2>3, <2>4
    <3>6. (f[h] + c * Ones) + (word + d * Ones) = (f[h] + word) + (c + d) * Ones
      <4> HIDE DEF word
      <4> QED
        BY <3>3, <1>10, <2>3
    <3> HIDE DEF word
    <3> QED
      BY <3>4, <3>5, <3>6, <2>5
  <2> QED
    BY <1>2, <2>5, <2>7
<1> QED
  BY <1>3, <1>11, <1>12, Halves DEF h

-----------------------------------------------------------------------------
(* Folding, and the checksums made of it.                                   *)

\* One round of folding takes away a multiple of Ones.
LEMMA Round ==
    ASSUME NEW k \in Nat, k >= WORD
    PROVE  /\ (k % WORD) + (k \div WORD) \in Nat
           /\ (k % WORD) + (k \div WORD) < k
           /\ (k % WORD) + (k \div WORD) > 0
           /\ \E q \in Int : (k % WORD) + (k \div WORD) = k - q * Ones
<1>1. WORD \in Nat /\ WORD > 0 /\ WORD = Ones + 1 /\ Ones \in Nat /\ Ones >= 15
  BY OnesTyped
<1>2. PICK q \in Int, r \in Nat : k = q * WORD + r /\ r = k % WORD /\ q = k \div WORD /\ r < WORD
  BY <1>1, Division
<1>3. q >= 1 /\ q * WORD = q * Ones + q /\ q * Ones \in Int /\ q * Ones >= 15
  <2>1. q <= 0 => q * WORD <= 0
    BY <1>1
  <2>2. q >= 1
    BY <2>1, <1>1, <1>2
  <2>3. q * (Ones + 1) = q * Ones + q /\ q * Ones \in Int
    BY <1>1
  <2>4. q * Ones >= Ones
    <3>1. ASSUME NEW o \in Nat PROVE q * o >= o
      BY <2>2
    <3> QED
      BY <3>1, <1>1
  <2> QED
    BY <2>2, <2>3, <2>4, <1>1
<1>4. r + q = k - q * Ones /\ r + q \in Nat /\ r + q < k /\ r + q > 0
  <2> DEFINE o == q * Ones
  <2>1. q * WORD = o + q /\ o \in Int /\ o >= 15
    BY <1>3
  <2> HIDE DEF o
  <2>2. r + q = k - o /\ r + q \in Nat /\ r + q < k /\ r + q > 0
    BY <2>1, <1>2, <1>3
  <2> QED
    BY <2>2 DEF o
<1> QED
  BY <1>2, <1>4

LEMMA SameRest ==
    ASSUME NEW x \in Int, NEW q \in Int
    PROVE  (x - q * Ones) % Ones = x % Ones
<1> DEFINE y == x - q * Ones
<1>1. Ones \in Nat /\ Ones > 0 /\ y \in Int
  BY OnesTyped
<1>2. PICK j \in Int, r \in Nat : x = j * Ones + r /\ r = x % Ones /\ r < Ones
  BY <1>1, Division
<1>3. PICK i \in Int, t \in Nat : y = i * Ones + t /\ t = y % Ones /\ t < Ones
  <2> HIDE DEF y
  <2> QED
    BY <1>1, Division
<1>4. r - t = (q + i - j) * Ones /\ r - t \in Int /\ q + i - j \in Int
  BY <1>1, <1>2, <1>3
<1>5. -Ones < r - t /\ r - t < Ones
  BY <1>1, <1>2, <1>3
<1>6. r - t = 0
  BY <1>1, <1>4, <1>5, SmallMultiple
<1>7. r = t
  BY <1>2, <1>3, <1>6
<1> QED
  BY <1>2, <1>3, <1>7, Zenon

FoldingLaw(f) == f = [k \in Nat |-> IF k < WORD THEN k ELSE f[(k % WORD) + (k \div WORD)]]

LEMMA FoldingExists == \E f : FoldingLaw(f)
<1> DEFINE w(k) == IF k = 0 THEN 0 ELSE ((k - 1) % Ones) + 1
           f == [k \in Nat |-> w(k)]
<1>0. Ones \in Nat /\ Ones >= 15 /\ WORD = Ones + 1
  BY OnesTyped
<1>1. ASSUME NEW k \in Nat
      PROVE  f[k] = IF k < WORD THEN k ELSE f[(k % WORD) + (k \div WORD)]
  <2>1. CASE k < WORD
    <3>1. CASE k = 0
      BY <3>1, <2>1, Zenon
    <3>2. CASE k # 0
      <4>1. PICK q \in Int, r \in Nat :
               k - 1 = q * Ones + r /\ r = (k - 1) % Ones /\ r < Ones
        <5>1. k - 1 \in Int /\ Ones > 0
          BY <1>0
        <5> QED
          BY <5>1, <1>0, Division, Zenon
      <4>2. (k - 1) - r = q * Ones /\ -Ones < (k - 1) - r /\ (k - 1) - r < Ones /\ (k - 1) - r \in Int
        BY <4>1, <3>2, <2>1, <1>0
      <4>3. (k - 1) - r = 0
        BY <4>2, <1>0, SmallMultiple
      <4>4. w(k) = k
        BY <4>1, <4>3, <3>2
      <4> QED
        BY <4>4, <2>1
    <3> QED
      BY <3>1, <3>2
  <2>2. CASE ~(k < WORD)
    <3> DEFINE m == (k % WORD) + (k \div WORD)
    <3>1. k >= WORD
      BY <2>2, <1>0
    <3>2. m \in Nat /\ m > 0 /\ \E q \in Int : m = k - q * Ones
      BY <3>1, Round
    <3>3. PICK q \in Int : m = k - q * Ones
      BY <3>2
    <3> HIDE DEF m
    <3>4. q * Ones \in Int
      BY <1>0
    <3>5. m - 1 = (k - 1) - q * Ones /\ k - 1 \in Int
      BY <3>2, <3>3, <3>4
    <3>6. (m - 1) % Ones = (k - 1) % Ones
      BY <3>5, SameRest
    <3>7. w(m) = w(k)
      BY <3>6, <3>2, <3>1, <1>0
    <3>8. f[m] = w(m) /\ f[k] = w(k)
      BY <3>2
    <3> QED
      BY <3>7, <3>8, <2>2 DEF m
  <2> QED
    BY <2>1, <2>2
<1>2. f = [k \in Nat |-> IF k < WORD THEN k ELSE f[(k % WORD) + (k \div WORD)]]
  <2>1. f = [k \in Nat |-> f[k]]
    OBVIOUS
  <2> HIDE DEF f
  <2> QED
    BY <1>1, <2>1
<1> QED
  BY <1>2 DEF FoldingLaw

\* Folding keeps the remainder, and zero is folded from zero only.
LEMMA FoldedIs ==
    ASSUME NEW n \in Nat
    PROVE  /\ Folded(n) \in Nat /\ Folded(n) <= Ones
           /\ Same(Folded(n), n)
           /\ Folded(n) = 0 <=> n = 0
<1> DEFINE f == CHOOSE g : FoldingLaw(g)
<1>1. FoldingLaw(f)
  BY FoldingExists
<1>2. Folded(n) = f[n]
  BY DEF Folded, FoldingLaw
<1> HIDE DEF f
<1>3. ASSUME NEW k \in Nat
      PROVE  f[k] = IF k < WORD THEN k ELSE f[(k % WORD) + (k \div WORD)]
  BY <1>1 DEF FoldingLaw
<1> DEFINE Good(k) == /\ f[k] \in Nat /\ f[k] <= Ones
                      /\ Same(f[k], k)
                      /\ f[k] = 0 <=> k = 0
<1>4. ASSUME NEW k \in Nat, \A m \in Nat : m < k => Good(m) PROVE Good(k)
  <2>1. CASE k < WORD
    <3>1. f[k] = k
      BY <2>1, <1>3
    <3>2. k <= Ones /\ Same(k, k)
      BY <2>1, OnesTyped, SameItself
    <3> QED
      BY <3>1, <3>2
  <2>2. CASE ~(k < WORD)
    <3> DEFINE m == (k % WORD) + (k \div WORD)
    <3>1. k >= WORD /\ k > 0
      BY <2>2, OnesTyped
    <3>2. m \in Nat /\ m < k /\ m > 0 /\ \E q \in Int : m = k - q * Ones
      BY <3>1, Round
    <3>3. PICK q \in Int : m = k - q * Ones
      BY <3>2
    <3>4. f[k] = f[m]
      BY <1>3, <2>2
    <3> HIDE DEF m
    <3>5. Same(m, k)
      <4>1. -q \in Int /\ k - q * Ones = k + (-q) * Ones
        BY OnesTyped
      <4> QED
        BY <4>1, <3>3 DEF Same
    <3>6. Good(m)
      BY <1>4, <3>2
    <3>7. f[m] \in Int /\ m \in Int /\ k \in Int /\ Same(f[m], m)
      BY <3>2, <3>6
    <3>8. Same(f[m], k)
      BY <3>5, <3>7, SameChained
    <3> QED
      BY <3>1, <3>2, <3>4, <3>6, <3>8
  <2> QED
    BY <2>1, <2>2
<1> HIDE DEF Good
<1>5. Good(n)
  <2> DEFINE S == {m \in Nat : Good(m)}
  <2>1. \A k \in Nat : (\A m \in Nat : m < k => m \in S) => k \in S
    BY <1>4
  <2> HIDE DEF S
  <2>2. Nat \subseteq S
    BY <2>1, StrongInduction
  <2> QED
    BY <2>2 DEF S
<1> QED
  BY <1>2, <1>5 DEF Good

LEMMA TurnOfInt == ASSUME NEW a \in Int PROVE Turn * a \in Int
BY TurnTyped

LEMMA Unturned ==
    ASSUME NEW a \in Int, NEW b \in Int, Same(Turn * a, b)
    PROVE  Same(a, Turn * b)
<1>1. Turn * a \in Int /\ Turn * b \in Int
  BY TurnOfInt
<1>2. Turn * (Turn * a) \in Int /\ Turn \in Int
  BY <1>1, TurnOfInt, TurnTyped
<1>3. Same(Turn * (Turn * a), Turn * b)
  BY <1>1, <1>2, SameProduct, Zenon
<1>4. Same(a, Turn * (Turn * a))
  BY <1>2, TurnedTwice, SameTurned, Zenon
<1> QED
  BY <1>1, <1>2, <1>3, <1>4, SameChained, Zenon

LEMMA HostWordTurned ==
    ASSUME NEW x \in Bytes, NEW y \in Bytes
    PROVE  Same(BYTE * x + y, Turn * HostWord(x, y)) /\ BYTE * x + y \in Nat
<1>1. x \in Nat /\ y \in Nat /\ BYTE \in Nat
  BY Width DEF Bytes
<1>2. BYTE * x + y \in Int /\ BYTE * x + y \in Nat
  BY <1>1
<1>3. PICK c \in Nat : Turn * (BYTE * x + y) = HostWord(x, y) + c * Ones
  BY WordTurned
<1>4. HostWord(x, y) \in Int
  BY WordTurned
<1>5. c \in Int
  OBVIOUS
<1>6. Same(Turn * (BYTE * x + y), HostWord(x, y))
  BY <1>3, <1>5 DEF Same
<1> QED
  BY <1>2, <1>4, <1>6, Unturned

LEMMA BytesOfIs ==
    ASSUME NEW C \in Nat, C <= Ones
    PROVE  \E x \in Bytes, y \in Bytes :
             BytesOf(C) = <<x, y>> /\ Same(BYTE * x + y, Turn * C) /\ HostWord(x, y) = C
<1>1. BYTE \in Nat /\ BYTE >= 4 /\ C < BYTE * BYTE
  BY Width, OnesTyped DEF WORD
<1>2. PICK q \in Int, r \in Nat : C = q * BYTE + r /\ r = C % BYTE /\ q = C \div BYTE /\ r < BYTE
  <2>1. BYTE > 0 /\ C \in Int
    BY <1>1
  <2> QED
    BY <1>1, <2>1, Division
<1>3. q >= 0 /\ q < BYTE
  <2>1. q < 0 => q * BYTE <= -BYTE
    BY <1>1
  <2>2. q >= BYTE => q * BYTE >= BYTE * BYTE
    BY <1>1
  <2> QED
    BY <1>1, <1>2, <2>1, <2>2
<1>4. q \in Bytes /\ r \in Bytes
  BY <1>1, <1>2, <1>3 DEF Bytes
<1>5. CASE LittleEndian
  <2>1. BytesOf(C) = <<r, q>>
    BY <1>2, <1>5 DEF BytesOf
  <2>2. HostWord(r, q) = C
    BY <1>1, <1>2, <1>5 DEF HostWord
  <2>3. Same(BYTE * r + q, Turn * C)
    BY <1>4, <2>2, HostWordTurned
  <2> QED
    BY <1>4, <2>1, <2>2, <2>3
<1>6. CASE ~LittleEndian
  <2>1. BytesOf(C) = <<q, r>>
    BY <1>2, <1>6 DEF BytesOf
  <2>2. HostWord(q, r) = C
    BY <1>1, <1>2, <1>6 DEF HostWord
  <2>3. Same(BYTE * q + r, Turn * C)
    BY <1>4, <2>2, HostWordTurned
  <2> QED
    BY <1>4, <2>1, <2>2, <2>3
<1> QED
  BY <1>5, <1>6

LEMMA Sum16Turned ==
    ASSUME NEW s \in Seq(Bytes), Ones * (Len(s) + 1) < 2 * DOUBLE
    PROVE  /\ Sum16(s) \in Nat
           /\ Same(Turn * Total(s), Sum16(s))
           /\ Sum16(s) = 0 <=> Total(s) = 0
<1>1. /\ Sum16(s) \in Nat
      /\ \E c \in Nat : c <= Sum16(s) /\ Turn * Total(s) = Sum16(s) + c * Ones
  BY Sum16Total
<1>2. PICK c \in Nat : c <= Sum16(s) /\ Turn * Total(s) = Sum16(s) + c * Ones
  BY <1>1
<1>3. Total(s) \in Nat
  BY TotalTyped
<1>4. Same(Turn * Total(s), Sum16(s))
  <2>1. c \in Int
    OBVIOUS
  <2> QED
    BY <1>2, <2>1 DEF Same
<1>5. c * Ones \in Nat
  BY OnesTyped, Product
<1>6. ASSUME Total(s) = 0 PROVE Sum16(s) = 0
  <2>1. Turn * 0 = 0
    BY TurnTyped
  <2>2. 0 = Sum16(s) + c * Ones
    BY <1>2, <1>6, <2>1
  <2> QED
    BY <2>2, <1>1, <1>5
<1>7. ASSUME Sum16(s) = 0 PROVE Total(s) = 0
  <2>1. c = 0
    BY <1>2, <1>7
  <2>2. Turn * Total(s) = 0
    BY <1>2, <1>7, <2>1, OnesTyped
  <2>3. ASSUME NEW t \in Nat, NEW x \in Nat, t >= 1, t * x = 0 PROVE x = 0
    BY <2>3
  <2> QED
    BY <2>2, <2>3, <1>3, TurnTyped
<1> QED
  BY <1>1, <1>4, <1>6, <1>7

\* The complement of a folded number.
LEMMA InvertedIs ==
    ASSUME NEW n \in Nat
    PROVE  /\ Inverted(Folded(n)) \in Nat /\ Inverted(Folded(n)) <= Ones
           /\ Same(Inverted(Folded(n)), -n)
           /\ Inverted(Folded(n)) = 0 <=> n > 0 /\ Same(n, 0)
           /\ Inverted(Folded(n)) = Ones <=> n = 0
<1> DEFINE F == Folded(n)
           C == Inverted(F)
<1>1. F \in Nat /\ F <= Ones /\ Same(F, n) /\ (F = 0 <=> n = 0)
  BY FoldedIs
<1>2. C = Ones - F
  BY DEF Inverted, Ones
<1>3. Ones \in Nat /\ Ones >= 15
  BY OnesTyped
<1>4. Same(Ones, 0)
  <2>1. Ones = 0 + 1 * Ones /\ 1 \in Int
    BY <1>3
  <2> QED
    BY <2>1 DEF Same
<1> HIDE DEF F, C
<1>5. Same(C, -n)
  <2>1. F \in Int /\ Ones \in Int /\ n \in Int /\ 0 \in Int /\ 0 - n = -n
    BY <1>1, <1>3
  <2>2. Same(Ones - F, 0 - n)
    BY <2>1, <1>1, <1>4, SameSum
  <2> QED
    BY <2>1, <2>2, <1>2
<1>6. ASSUME C = 0 PROVE n > 0 /\ Same(n, 0)
  <2>1. F = Ones
    BY <1>1, <1>2, <1>3, <1>6
  <2>2. Same(n, F)
    <3>1. F \in Int /\ n \in Int
      BY <1>1
    <3> QED
      BY <3>1, <1>1, SameTurned
  <2>3. Same(n, 0)
    <3>1. F \in Int /\ n \in Int /\ 0 \in Int
      BY <1>1
    <3> QED
      BY <3>1, <2>1, <2>2, <1>4, SameChained
  <2> QED
    BY <1>1, <1>3, <2>1, <2>3
<1>7. ASSUME n > 0, Same(n, 0) PROVE C = 0
  <2>1. F \in Int /\ n \in Int /\ 0 \in Int /\ Ones \in Int
    BY <1>1, <1>3
  <2>2. Same(F, 0)
    BY <2>1, <1>1, <1>7, SameChained
  <2>3. Same(Ones - F, 0 - 0)
    BY <2>1, <2>2, <1>4, SameSum
  <2>4. F > 0
    BY <1>1, <1>7
  <2>5. Ones - F \in Int /\ -Ones < Ones - F /\ Ones - F < Ones /\ Same(Ones - F, 0)
    BY <2>1, <2>3, <2>4, <1>1, <1>3
  <2>6. Ones - F = 0
    BY <2>5, SameAsZero
  <2> QED
    BY <2>6, <1>2
<1>8. /\ C \in Nat /\ C <= Ones
      /\ Same(C, -n)
      /\ C = 0 <=> n > 0 /\ Same(n, 0)
      /\ C = Ones <=> n = 0
  BY <1>1, <1>2, <1>3, <1>5, <1>6, <1>7
<1> QED
  BY <1>8 DEF F, C

LEMMA SameNegative ==
    ASSUME NEW a \in Int, NEW b \in Int, Same(a, -b) PROVE Same(Turn * a, -(Turn * b))
<1>1. Turn \in Int /\ -b \in Int
  BY TurnTyped
<1>2. Same(Turn * a, Turn * (-b))
  BY <1>1, SameProduct, Zenon
<1>3. ASSUME NEW t \in Int PROVE t * (-b) = -(t * b)
  OBVIOUS
<1>4. Turn * (-b) = -(Turn * b)
  BY <1>1, <1>3
<1> QED
  BY <1>2, <1>4

LEMMA TurnOfThree ==
    ASSUME NEW x \in Int, NEW y \in Int, NEW z \in Int
    PROVE  Turn * (x + y + z) = Turn * x + Turn * y + Turn * z
<1>1. ASSUME NEW t \in Int PROVE t * (x + y + z) = t * x + t * y + t * z
  OBVIOUS
<1> QED
  BY <1>1, TurnTyped

\* The size of two parts together.
Fits(n) == Ones * (n + 1) < 2 * DOUBLE

LEMMA FitsBelow ==
    ASSUME NEW m \in Nat, NEW n \in Nat, m <= n, Fits(n)
    PROVE  Fits(m)
<1>1. m + 1 \in Nat /\ n + 1 \in Nat /\ m + 1 <= n + 1 /\ Ones \in Nat
  BY OnesTyped
<1>2. Ones * (m + 1) <= Ones * (n + 1) /\ Ones * (m + 1) \in Nat /\ Ones * (n + 1) \in Nat
  BY <1>1, Ordered, Product
<1>3. Ones * (n + 1) < 2 * DOUBLE /\ DOUBLE \in Nat
  BY DoubleTyped DEF Fits
<1>4. ASSUME NEW a \in Nat, NEW b \in Nat, NEW c \in Int, a <= b, b < c PROVE a < c
  BY <1>4
<1>5. 2 * DOUBLE \in Int
  BY <1>3
<1>6. Ones * (m + 1) < 2 * DOUBLE
  BY <1>2, <1>3, <1>4, <1>5, Zenon
<1> QED
  BY <1>6 DEF Fits

\* checksum__calculate_checksum_ipv4/6() of a message whose sum does not overflow.
THEOREM CalculatedIs ==
    ASSUME NEW a \in Seq(Bytes), NEW b \in Seq(Bytes), NEW p \in Seq(Bytes),
           Fits(Len(a) + Len(b) + Len(p) + 2)
    PROVE  LET C == Calculated(a, b, p)
               T == Total(a) + Total(b) + Total(p)
           IN  /\ C \in Nat /\ C <= Ones
               /\ Same(Turn * C, -T)
               /\ C = 0 <=> T > 0 /\ Same(T, 0)
               /\ C = Ones <=> T = 0
<1> DEFINE x == Sum16(a)
           y == Sum16(b)
           z == Sum16(p)
           S == x + y + z
           T == Total(a) + Total(b) + Total(p)
           C == Calculated(a, b, p)
           n == Len(a) + Len(b) + Len(p) + 2
<1>1. Len(a) \in Nat /\ Len(b) \in Nat /\ Len(p) \in Nat /\ n \in Nat
  OBVIOUS
<1>2. Fits(Len(a)) /\ Fits(Len(b)) /\ Fits(Len(p))
  <2>1. Len(a) <= n /\ Len(b) <= n /\ Len(p) <= n
    BY <1>1
  <2> QED
    BY <1>1, <2>1, FitsBelow
<1>3. /\ x \in Nat /\ Same(Turn * Total(a), x) /\ (x = 0 <=> Total(a) = 0)
      /\ y \in Nat /\ Same(Turn * Total(b), y) /\ (y = 0 <=> Total(b) = 0)
      /\ z \in Nat /\ Same(Turn * Total(p), z) /\ (z = 0 <=> Total(p) = 0)
  BY <1>2, Sum16Turned DEF Fits
<1>4. 2 * x <= Ones * (Len(a) + 1) /\ 2 * y <= Ones * (Len(b) + 1) /\ 2 * z <= Ones * (Len(p) + 1)
  BY <1>2, Sum16Total DEF Fits
<1>5. S \in Nat /\ S < DOUBLE
  <2> HIDE DEF x, y, z
  <2>1. Ones * (Len(a) + 1) + Ones * (Len(b) + 1) + Ones * (Len(p) + 1) = Ones * (n + 1)
    <3>1. ASSUME NEW o \in Int, NEW i \in Nat, NEW j \in Nat, NEW k \in Nat
          PROVE  o * (i + 1) + o * (j + 1) + o * (k + 1) = o * ((i + j + k + 2) + 1)
      OBVIOUS
    <3>2. Ones \in Int
      BY OnesTyped
    <3> QED
      BY <3>1, <3>2, <1>1
  <2>2. Ones * (n + 1) < 2 * DOUBLE
    BY DEF Fits
  <2>3. /\ Ones * (Len(a) + 1) \in Nat /\ Ones * (Len(b) + 1) \in Nat
        /\ Ones * (Len(p) + 1) \in Nat
    <3>1. Len(a) + 1 \in Nat /\ Len(b) + 1 \in Nat /\ Len(p) + 1 \in Nat /\ Ones \in Nat
      BY <1>1, OnesTyped
    <3> QED
      BY <3>1, Product
  <2>4. ASSUME NEW i \in Nat, NEW j \in Nat, NEW k \in Nat, NEW e \in Int, NEW d \in Nat,
               2 * x <= i, 2 * y <= j, 2 * z <= k, i + j + k = e, e < 2 * d
        PROVE  x + y + z < d
    BY <1>3, <2>4
  <2>5. Ones * (n + 1) \in Int
    BY <2>1, <2>3
  <2>6. S < DOUBLE
    BY <1>4, <2>1, <2>2, <2>3, <2>4, <2>5, DoubleTyped, Zenon
  <2> QED
    BY <1>3, <2>6
<1>6. C = Inverted(Folded(S))
  <2>1. S % DOUBLE = S
    <3> HIDE DEF S
    <3> QED
      BY <1>5, SmallRest
  <2> QED
    BY <2>1 DEF Calculated
<1>7. Total(a) \in Nat /\ Total(b) \in Nat /\ Total(p) \in Nat /\ T \in Nat
  BY TotalTyped
<1>8. Same(Turn * T, S)
  <2>1. Turn * T = Turn * Total(a) + Turn * Total(b) + Turn * Total(p)
    <3>1. Total(a) \in Int /\ Total(b) \in Int /\ Total(p) \in Int
      BY <1>7
    <3> QED
      BY <3>1, TurnOfThree
  <2>2. Turn * Total(a) \in Int /\ Turn * Total(b) \in Int /\ Turn * Total(p) \in Int
    BY <1>7, TurnOfInt
  <2> HIDE DEF x, y, z
  <2>3. Same(Turn * Total(a) + Turn * Total(b), x + y)
    <3>1. x \in Int /\ y \in Int
      BY <1>3
    <3> QED
      BY <1>3, <2>2, <3>1, SameSum, Zenon
  <2>4. Same(Turn * Total(a) + Turn * Total(b) + Turn * Total(p), x + y + z)
    <3>1. /\ x + y \in Int /\ z \in Int /\ Turn * Total(p) \in Int
          /\ Turn * Total(a) + Turn * Total(b) \in Int
      BY <1>3, <2>2
    <3> QED
      BY <1>3, <2>3, <3>1, SameSum, Zenon
  <2> QED
    BY <2>1, <2>4
<1>9. S = 0 <=> T = 0
  <2> HIDE DEF x, y, z
  <2> QED
    BY <1>3, <1>7
<1> HIDE DEF S, T, C
<1>10. S \in Int /\ T \in Int /\ Turn * T \in Int /\ Turn \in Int
  BY <1>5, <1>7, TurnOfInt, TurnTyped
<1>11. /\ C \in Nat /\ C <= Ones
       /\ Same(C, -S)
       /\ C = 0 <=> S > 0 /\ Same(S, 0)
       /\ C = Ones <=> S = 0
  BY <1>5, <1>6, InvertedIs
<1>12. Same(Turn * C, -T)
  <2>1. Same(T, Turn * S)
    BY <1>8, <1>10, Unturned
  <2>2. C \in Int /\ Turn * C \in Int /\ Turn * S \in Int /\ -(Turn * S) \in Int /\ -T \in Int
    BY <1>11, <1>10, TurnOfInt
  <2>3. Same(Turn * C, -(Turn * S))
    BY <1>11, <1>10, <2>2, SameNegative
  <2>4. Same(0 - Turn * S, 0 - T)
    <3>1. Same(Turn * S, T) /\ Same(0, 0) /\ 0 \in Int
      BY <2>1, <2>2, <1>10, SameTurned, SameItself
    <3> QED
      BY <3>1, <2>2, <1>10, SameSum
  <2>5. 0 - Turn * S = -(Turn * S) /\ 0 - T = -T
    BY <2>2, <1>10
  <2> QED
    BY <2>2, <2>3, <2>4, <2>5, SameChained, Zenon
<1>13. Same(S, 0) <=> Same(T, 0)
  <2>1. Same(S, Turn * T)
    BY <1>8, <1>10, SameTurned
  <2>2. Same(S, 0) => Same(Turn * T, 0)
    <3>1. 0 \in Int
      OBVIOUS
    <3> QED
      BY <3>1, <1>8, <1>10, SameChained, Zenon
  <2>3. Same(Turn * T, 0) => Same(S, 0)
    <3>1. 0 \in Int
      OBVIOUS
    <3> QED
      BY <3>1, <2>1, <1>10, SameChained, Zenon
  <2>4. Same(Turn * T, 0) <=> Same(T, 0)
    BY <1>10, TurnedZero
  <2> QED
    BY <2>2, <2>3, <2>4
<1>14. S > 0 <=> T > 0
  <2>1. S \in Nat /\ T \in Nat
    BY <1>5, <1>7
  <2> QED
    BY <2>1, <1>9
<1>15. /\ C \in Nat /\ C <= Ones
       /\ Same(Turn * C, -T)
       /\ C = 0 <=> T > 0 /\ Same(T, 0)
       /\ C = Ones <=> T = 0
  BY <1>9, <1>11, <1>12, <1>13, <1>14
<1> QED
  BY <1>15 DEF C, T

\* checksum__recalculate_checksum_4to6(), _6to4(): in ones' complement the old
\* checksum and the old addresses less the new ones, and never all ones.
THEOREM RecalculatedIs ==
    ASSUME NEW old \in Nat, old <= Ones, NEW a \in Seq(Bytes), NEW b \in Seq(Bytes),
           Fits(Len(a)), Fits(Len(b))
    PROVE  LET R == Recalculated(old, a, b)
           IN  /\ R \in Nat /\ R < Ones
               /\ Same(Turn * R, Turn * old + Total(a) - Total(b))
<1> DEFINE x == Sum16(a)
           y == Sum16(b)
           m == DOUBLE - 1 - old - Folded(x)
           A == Folded(m)
           B == Folded(y)
           R == Recalculated(old, a, b)
<1>1. /\ x \in Nat /\ Same(Turn * Total(a), x)
      /\ y \in Nat /\ Same(Turn * Total(b), y)
  BY Sum16Turned DEF Fits
<1>2. Folded(x) \in Nat /\ Folded(x) <= Ones /\ Same(Folded(x), x)
  BY <1>1, FoldedIs
<1>3. Ones \in Nat /\ Ones >= 15 /\ DOUBLE \in Nat /\ DOUBLE - 1 = (Ones + 2) * Ones
      /\ DOUBLE - 1 > 2 * Ones
  <2>1. ASSUME NEW o \in Nat, o >= 15
        PROVE  (o + 1) * (o + 1) - 1 = (o + 2) * o /\ (o + 1) * (o + 1) - 1 > 2 * o
    BY <2>1
  <2>2. Ones \in Nat /\ Ones >= 15 /\ DOUBLE = (Ones + 1) * (Ones + 1)
    BY OnesTyped DEF DOUBLE
  <2> QED
    BY <2>1, <2>2, DoubleTyped
<1> HIDE DEF x, y
<1>4. m \in Nat /\ m > 0 /\ m < DOUBLE
  BY <1>2, <1>3
<1>5. A \in Nat /\ A <= Ones /\ Same(A, m) /\ A > 0
  <2> HIDE DEF m
  <2>1. A \in Nat /\ A <= Ones /\ Same(A, m) /\ (A = 0 <=> m = 0)
    BY <1>4, FoldedIs
  <2> QED
    BY <1>4, <2>1
<1>6. B \in Nat /\ Same(B, y)
  BY <1>1, FoldedIs
<1>7. R = Inverted(Folded(A + B))
  <2>1. m % DOUBLE = m
    <3> HIDE DEF m
    <3> QED
      BY <1>4, SmallRest
  <2> QED
    BY <2>1 DEF Recalculated, x, y
<1> HIDE DEF A, B, R
<1>8. A + B \in Nat /\ A + B > 0
  BY <1>5, <1>6
<1>9. R \in Nat /\ R <= Ones /\ Same(R, -(A + B)) /\ (R = Ones <=> A + B = 0)
  <2> DEFINE s == A + B
  <2>1. s \in Nat
    BY <1>8
  <2>2. R = Inverted(Folded(s))
    BY <1>7
  <2> HIDE DEF s
  <2>3. R \in Nat /\ R <= Ones /\ Same(R, -s) /\ (R = Ones <=> s = 0)
    BY <2>1, <2>2, InvertedIs
  <2> QED
    BY <2>3 DEF s
<1>10. R < Ones
  BY <1>3, <1>8, <1>9
<1>11. Same(m, -old - x)
  <2>1. DOUBLE - 1 = 0 + (Ones + 2) * Ones /\ Ones + 2 \in Int
    BY <1>3
  <2>2. Same(DOUBLE - 1, 0)
    BY <2>1 DEF Same
  <2>3. Same(old, old)
    BY SameItself
  <2>4. /\ DOUBLE - 1 \in Int /\ old \in Int /\ 0 \in Int /\ Folded(x) \in Int /\ x \in Int
        /\ DOUBLE - 1 - old \in Int /\ 0 - old \in Int
    BY <1>1, <1>2, <1>3
  <2>5. Same(DOUBLE - 1 - old, 0 - old)
    BY <2>2, <2>3, <2>4, SameSum, Zenon
  <2>6. Same(DOUBLE - 1 - old - Folded(x), 0 - old - x)
    BY <2>4, <2>5, <1>2, SameSum, Zenon
  <2>7. 0 - old - x = -old - x
    BY <2>4
  <2> QED
    BY <2>6, <2>7
<1> HIDE DEF m
<1>12. Same(A + B, -old - x + y)
  <2>1. /\ A \in Int /\ B \in Int /\ m \in Int /\ -old - x \in Int /\ y \in Int
    BY <1>1, <1>4, <1>5, <1>6
  <2>2. Same(A, -old - x)
    BY <2>1, <1>5, <1>11, SameChained, Zenon
  <2> QED
    BY <2>1, <2>2, <1>6, SameSum, Zenon
<1>13. Same(R, old + x - y)
  <2>1. A + B \in Int /\ -old - x + y \in Int /\ 0 \in Int /\ R \in Int /\ -(A + B) \in Int
        /\ 0 - (A + B) = -(A + B) /\ 0 - (-old - x + y) = old + x - y /\ old + x - y \in Int
    BY <1>1, <1>5, <1>6, <1>9
  <2>2. Same(0, 0)
    BY SameItself
  <2>3. Same(0 - (A + B), 0 - (-old - x + y))
    BY <1>12, <2>1, <2>2, SameSum, Zenon
  <2>4. Same(-(A + B), old + x - y)
    BY <2>3, <2>1
  <2> QED
    BY <2>1, <2>4, <1>9, SameChained, Zenon
<1>14. Total(a) \in Int /\ Total(b) \in Int /\ Turn \in Int /\ x \in Int /\ y \in Int /\ R \in Int
       /\ old \in Int
  BY TotalTyped, TurnTyped, <1>1, <1>9
<1>15. Same(Turn * R, Turn * (old + x - y)) /\ Turn * (old + x - y) = Turn * old + Turn * x - Turn * y
  <2>1. old + x - y \in Int
    BY <1>14
  <2>2. Same(Turn * R, Turn * (old + x - y))
    BY <2>1, <1>13, <1>14, SameProduct, Zenon
  <2>3. ASSUME NEW t \in Int PROVE t * (old + x - y) = t * old + t * x - t * y
    BY <1>14
  <2> QED
    BY <2>2, <2>3, <1>14
<1>16. Same(Turn * x, Total(a)) /\ Same(Turn * y, Total(b))
  <2>1. Turn * x \in Int /\ Turn * y \in Int
    BY <1>14, TurnOfInt
  <2>2. Same(Total(a), Turn * x) /\ Same(Total(b), Turn * y)
    BY <1>1, <1>14, Unturned
  <2> QED
    BY <2>1, <2>2, <1>14, SameTurned
<1>17. Same(Turn * R, Turn * old + Total(a) - Total(b))
  <2>1. Turn * R \in Int /\ Turn * old \in Int /\ Turn * x \in Int /\ Turn * y \in Int
    BY <1>14, TurnOfInt
  <2>2. Same(Turn * old, Turn * old)
    BY <2>1, SameItself
  <2>3. Same(Turn * old + Turn * x, Turn * old + Total(a))
    BY <2>1, <2>2, <1>14, <1>16, SameSum, Zenon
  <2>4. Turn * old + Turn * x \in Int /\ Turn * old + Total(a) \in Int
    BY <2>1, <1>14
  <2>5. Same((Turn * old + Turn * x) - Turn * y, (Turn * old + Total(a)) - Total(b))
    <3>1. Turn * y \in Int /\ Total(b) \in Int /\ Same(Turn * y, Total(b))
      BY <2>1, <1>14, <1>16
    <3> QED
      BY <3>1, <2>3, <2>4, SameSum, Zenon
  <2>6. /\ (Turn * old + Turn * x) - Turn * y = Turn * old + Turn * x - Turn * y
        /\ (Turn * old + Total(a)) - Total(b) = Turn * old + Total(a) - Total(b)
        /\ Turn * old + Turn * x - Turn * y \in Int
        /\ Turn * old + Total(a) - Total(b) \in Int
    BY <2>1, <2>4, <1>14
  <2>7. Same(Turn * R, Turn * old + Turn * x - Turn * y)
    BY <1>15
  <2>8. Same(Turn * old + Turn * x - Turn * y, Turn * old + Total(a) - Total(b))
    BY <2>5, <2>6
  <2> QED
    BY <2>1, <2>6, <2>7, <2>8, SameChained, Zenon
<1> QED
  BY <1>9, <1>10, <1>17 DEF R

-----------------------------------------------------------------------------
(* Packets and their sums.                                                  *)

AddressSize(family) == IF family = 4 THEN ADDRESS ELSE Len(Prefix) + ADDRESS

WellFormed(p) ==
    /\ p \in Packet
    /\ Len(p.source) = AddressSize(p.family) /\ Len(p.destination) = AddressSize(p.family)
    /\ \E d \in Data : Len(p.bytes) = Len(d) + 2

LEMMA PacketParts ==
    ASSUME NEW p, WellFormed(p)
    PROVE  /\ p.family \in {4, 6} /\ p.proto \in Protocols
           /\ p.source \in Seq(Bytes) /\ p.destination \in Seq(Bytes) /\ p.bytes \in Seq(Bytes)
           /\ Len(p.source) = AddressSize(p.family) /\ Len(p.destination) = AddressSize(p.family)
           /\ Len(p.bytes) \in Nat /\ Len(p.bytes) >= 3 /\ Len(p.bytes) < WORD
<1>1. p \in Packet
  BY DEF WellFormed
<1>2. /\ p.family \in {4, 6} /\ p.proto \in Protocols
      /\ p.source \in Seq(Bytes) /\ p.destination \in Seq(Bytes) /\ p.bytes \in Seq(Bytes)
  BY <1>1 DEF Packet
<1>3. PICK d \in Data : Len(p.bytes) = Len(d) + 2
  BY DEF WellFormed
<1>4. d \in Seq(Bytes) /\ 1 <= Len(d) /\ 2 + Len(d) < WORD
  BY IntegrityAssumption
<1>5. Len(d) \in Nat
  BY <1>4
<1>6. Len(p.bytes) \in Nat /\ Len(p.bytes) >= 3 /\ Len(p.bytes) < WORD
  BY <1>3, <1>4, <1>5, OnesTyped
<1> QED
  BY <1>2, <1>6 DEF WellFormed

LEMMA PrefixTyped ==
    Prefix \in Seq(Bytes) /\ Len(Prefix) \in Nat /\ Len(Prefix) % 2 = 0 /\ ADDRESS = 2
BY IntegrityAssumption DEF ADDRESS

LEMMA AddressSizeIs ==
    ASSUME NEW f \in {4, 6}
    PROVE  AddressSize(f) \in Nat /\ AddressSize(f) % 2 = 0 /\ AddressSize(f) <= Len(Prefix) + 2
<1>1. (Len(Prefix) + 2) % 2 = 0
  <2>1. 2 \in Nat /\ 2 % 2 = 0
    OBVIOUS
  <2> QED
    BY <2>1, PrefixTyped, Parity
<1>2. CASE f = 4
  <2>1. AddressSize(f) = 2
    BY <1>2, PrefixTyped DEF AddressSize
  <2> QED
    BY <2>1, PrefixTyped
<1>3. CASE f = 6
  <2>1. AddressSize(f) = Len(Prefix) + 2
    BY <1>3, PrefixTyped DEF AddressSize
  <2> QED
    BY <2>1, <1>1, PrefixTyped
<1> QED
  BY <1>2, <1>3

\* No sum over a packet and its addresses overflows.
LEMMA SizeFits ==
    ASSUME NEW p, WellFormed(p), NEW n \in Nat, n <= Len(p.bytes) + 2 * (Len(Prefix) + 2) + 10
    PROVE  Fits(n)
<1>1. PICK d \in Data : Len(p.bytes) = Len(d) + 2
  BY DEF WellFormed
<1>2. d \in Seq(Bytes)
  BY IntegrityAssumption
<1>3. Len(d) \in Nat /\ Len(Prefix) \in Nat
  BY <1>2, PrefixTyped
<1> DEFINE m == Len(d) + 2 * (Len(Prefix) + 2) + 12
<1>4. m \in Nat /\ m + 1 = Len(d) + 2 * (Len(Prefix) + ADDRESS) + 13 /\ n <= m
  BY <1>1, <1>3, PrefixTyped
<1>5. (WORD - 1) * (Len(d) + 2 * (Len(Prefix) + ADDRESS) + 13) < 2 * DOUBLE
  BY IntegrityAssumption
<1>6. Fits(m)
  BY <1>4, <1>5 DEF Fits, Ones
<1> HIDE DEF m
<1> QED
  BY <1>4, <1>6, FitsBelow

LEMMA NetworkBytesIs ==
    ASSUME NEW n \in Nat, n < WORD
    PROVE  NetworkBytes(n) \in Seq(Bytes) /\ Len(NetworkBytes(n)) = 2 /\ Total(NetworkBytes(n)) = n
<1>1. BYTE \in Nat /\ BYTE > 0 /\ n \in Int /\ n < BYTE * BYTE
  BY Width DEF WORD
<1>2. PICK q \in Int, r \in Nat : n = q * BYTE + r /\ r = n % BYTE /\ q = n \div BYTE /\ r < BYTE
  BY <1>1, Division
<1>3. q >= 0 /\ q < BYTE
  <2>1. q < 0 => q * BYTE <= -BYTE
    BY <1>1
  <2>2. q >= BYTE => q * BYTE >= BYTE * BYTE
    BY <1>1
  <2> QED
    BY <1>1, <1>2, <2>1, <2>2
<1>4. q \in Bytes /\ r \in Bytes
  BY <1>1, <1>2, <1>3 DEF Bytes
<1>5. NetworkBytes(n) = <<q, r>>
  BY <1>2 DEF NetworkBytes
<1>6. Total(<<q, r>>) = BYTE * q + r
  BY <1>4, TotalOfTwo
<1>7. BYTE * q + r = n
  BY <1>1, <1>2
<1> QED
  BY <1>4, <1>5, <1>6, <1>7

LEMMA ProtocolNumberIs ==
    ASSUME NEW p, WellFormed(p)
    PROVE  ProtocolNumber(p) \in Bytes /\ ProtocolNumber(p) \in Nat /\ ProtocolNumber(p) > 0
<1>1. 1 \in Bytes /\ 2 \in Bytes /\ 3 \in Bytes
  BY Width DEF Bytes
<1>2. p.proto \in {"tcp", "udp", "icmp"}
  BY PacketParts DEF Protocols
<1>3. CASE p.proto = "tcp"
  <2>1. ProtocolNumber(p) = 1
    BY <1>3 DEF ProtocolNumber
  <2> QED
    BY <1>1, <2>1
<1>4. CASE p.proto = "udp"
  <2>1. ProtocolNumber(p) = 2
    BY <1>4 DEF ProtocolNumber
  <2> QED
    BY <1>1, <2>1
<1>5. CASE p.proto = "icmp"
  <2>1. ProtocolNumber(p) = 3
    BY <1>5 DEF ProtocolNumber
  <2> QED
    BY <1>1, <2>1
<1> QED
  BY <1>2, <1>3, <1>4, <1>5

LEMMA Appended ==
    ASSUME NEW s \in Seq(Bytes), NEW t \in Seq(Bytes), Len(s) % 2 = 0, Len(t) % 2 = 0
    PROVE  /\ s \o t \in Seq(Bytes)
           /\ Len(s \o t) = Len(s) + Len(t) /\ Len(s \o t) % 2 = 0
           /\ Total(s \o t) = Total(s) + Total(t)
<1>1. Len(s) \in Nat /\ Len(t) \in Nat
  OBVIOUS
<1>2. (Len(s) + Len(t)) % 2 = 0
  BY <1>1, Parity
<1>3. s \o t \in Seq(Bytes) /\ Len(s \o t) = Len(s) + Len(t)
  OBVIOUS
<1> QED
  BY <1>2, <1>3, TotalConcat

\* Both pseudo headers have the same sum, apart from that of the addresses.
LEMMA PseudoHeaderIs ==
    ASSUME NEW p, WellFormed(p)
    PROVE  /\ PseudoHeader(p) \in Seq(Bytes)
           /\ Len(PseudoHeader(p)) <= 2 * (Len(Prefix) + 2) + 8
           /\ Total(PseudoHeader(p)) =
                IF p.family = 4 /\ p.proto = "icmp" THEN 0
                ELSE Total(p.source) + Total(p.destination) + Len(p.bytes) + ProtocolNumber(p)
<1> DEFINE s == p.source
           t == p.destination
           n == NetworkBytes(Len(p.bytes))
           k == ProtocolNumber(p)
           sum == Total(s) + Total(t) + Len(p.bytes) + k
<1>1. /\ s \in Seq(Bytes) /\ t \in Seq(Bytes) /\ n \in Seq(Bytes) /\ k \in Bytes /\ 0 \in Bytes
      /\ Len(n) = 2 /\ Len(n) % 2 = 0 /\ Total(n) = Len(p.bytes) /\ Len(p.bytes) \in Nat
  <2>1. Len(p.bytes) \in Nat /\ Len(p.bytes) < WORD
    BY PacketParts
  <2>2. n \in Seq(Bytes) /\ Len(n) = 2 /\ Total(n) = Len(p.bytes)
    BY <2>1, NetworkBytesIs
  <2>3. Len(n) % 2 = 0
    BY <2>2
  <2>4. s \in Seq(Bytes) /\ t \in Seq(Bytes)
    BY PacketParts
  <2>5. k \in Bytes /\ 0 \in Bytes
    BY ProtocolNumberIs, Width DEF Bytes
  <2> QED
    BY <2>1, <2>2, <2>3, <2>4, <2>5, Zenon
<1>2. /\ Len(s) \in Nat /\ Len(t) \in Nat /\ Len(s) % 2 = 0 /\ Len(t) % 2 = 0
      /\ Len(s) <= Len(Prefix) + 2 /\ Len(t) <= Len(Prefix) + 2 /\ Len(Prefix) \in Nat
  BY PacketParts, AddressSizeIs, PrefixTyped
<1>3. k \in Nat /\ BYTE \in Nat /\ Total(s) \in Nat /\ Total(t) \in Nat
  BY <1>1, TotalTyped, ProtocolNumberIs, Width
<1>4. CASE p.family = 6
  <2> DEFINE z == <<0, 0>>
             e == <<0, 0, 0, k>>
             h == s \o t \o z \o n \o e
  <2>1. /\ z \in Seq(Bytes) /\ Len(z) = 2 /\ Len(z) % 2 = 0
        /\ e \in Seq(Bytes) /\ Len(e) = 4 /\ Len(e) % 2 = 0
    BY <1>1
  <2>2. Total(z) = 0 /\ Total(e) = k
    <3>1. Total(z) = BYTE * 0 + 0 /\ Total(e) = (BYTE * 0 + 0) + (BYTE * 0 + k)
      BY <1>1, TotalOfTwo, TotalOfFour
    <3> QED
      BY <3>1, <1>3
  <2>3. PseudoHeader(p) = h
    BY <1>4 DEF PseudoHeader, PseudoHeader6
  <2> HIDE DEF s, t, n, k, z, e
  <2>4. /\ s \o t \in Seq(Bytes) /\ Len(s \o t) = Len(s) + Len(t) /\ Len(s \o t) % 2 = 0
        /\ Total(s \o t) = Total(s) + Total(t)
    BY <1>1, <1>2, Appended
  <2> DEFINE h1 == s \o t
  <2> HIDE DEF h1
  <2>5. /\ h1 \o z \in Seq(Bytes) /\ Len(h1 \o z) = Len(h1) + 2 /\ Len(h1 \o z) % 2 = 0
        /\ Total(h1 \o z) = Total(h1)
    <3>1. Total(h1) \in Nat
      BY <2>4, TotalTyped DEF h1
    <3> QED
      <4>1. h1 \in Seq(Bytes) /\ Len(h1) % 2 = 0
        BY <2>4 DEF h1
      <4>2. /\ h1 \o z \in Seq(Bytes) /\ Len(h1 \o z) = Len(h1) + Len(z) /\ Len(h1 \o z) % 2 = 0
            /\ Total(h1 \o z) = Total(h1) + Total(z)
        BY <4>1, <2>1, Appended, Zenon
      <4> QED
        BY <4>2, <3>1, <2>1, <2>2
  <2> DEFINE h2 == h1 \o z
  <2> HIDE DEF h2
  <2>6. /\ h2 \o n \in Seq(Bytes) /\ Len(h2 \o n) = Len(h2) + 2 /\ Len(h2 \o n) % 2 = 0
        /\ Total(h2 \o n) = Total(h2) + Len(p.bytes)
    <3>1. /\ h2 \in Seq(Bytes) /\ Len(h2) % 2 = 0
          /\ n \in Seq(Bytes) /\ Len(n) % 2 = 0
      BY <1>1, <2>5 DEF h2
    <3>2. /\ h2 \o n \in Seq(Bytes) /\ Len(h2 \o n) = Len(h2) + Len(n) /\ Len(h2 \o n) % 2 = 0
          /\ Total(h2 \o n) = Total(h2) + Total(n)
      BY <3>1, Appended, Zenon
    <3> QED
      BY <3>2, <1>1
  <2> DEFINE h3 == h2 \o n
  <2> HIDE DEF h3
  <2>7. /\ h3 \o e \in Seq(Bytes) /\ Len(h3 \o e) = Len(h3) + 4
        /\ Total(h3 \o e) = Total(h3) + k
    BY <2>1, <2>2, <2>6, Appended DEF h3
  <2>8. h = h3 \o e
    BY DEF h1, h2, h3
  <2>9. /\ Len(h1) = Len(s) + Len(t) /\ Total(h1) = Total(s) + Total(t)
        /\ Len(h2) = Len(h1) + 2 /\ Total(h2) = Total(h1)
        /\ Len(h3) = Len(h2) + 2 /\ Total(h3) = Total(h2) + Len(p.bytes)
    BY <2>4, <2>5, <2>6 DEF h1, h2, h3
  <2> HIDE DEF h
  <2>10. Len(h) = Len(s) + Len(t) + 8 /\ Total(h) = sum
    BY <2>7, <2>8, <2>9, <1>1, <1>2, <1>3
  <2>11. h \in Seq(Bytes) /\ Len(h) <= 2 * (Len(Prefix) + 2) + 8
    <3>1. Len(s) + Len(t) + 8 <= 2 * (Len(Prefix) + 2) + 8
      BY <1>2
    <3> QED
      BY <3>1, <2>7, <2>8, <2>10
  <2>12. ~(p.family = 4 /\ p.proto = "icmp")
    BY <1>4
  <2> HIDE DEF sum
  <2>13. Total(PseudoHeader(p)) = IF p.family = 4 /\ p.proto = "icmp" THEN 0 ELSE sum
    BY <2>3, <2>10, <2>12
  <2> QED
    BY <2>3, <2>11, <2>13 DEF sum, s, t, k
<1>5. CASE p.family = 4 /\ p.proto # "icmp"
  <2> DEFINE e == <<0, k>>
             h == s \o t \o e \o n
  <2>1. e \in Seq(Bytes) /\ Len(e) = 2 /\ Len(e) % 2 = 0
    BY <1>1
  <2>2. Total(e) = k
    <3>1. Total(e) = BYTE * 0 + k
      BY <1>1, TotalOfTwo
    <3> QED
      BY <3>1, <1>3
  <2>3. PseudoHeader(p) = h
    <3>1. p.family # 6 /\ p.proto # "icmp"
      BY <1>5
    <3> QED
      BY <3>1 DEF PseudoHeader, PseudoHeader4
  <2> HIDE DEF s, t, n, k, e
  <2>4. /\ s \o t \in Seq(Bytes) /\ Len(s \o t) = Len(s) + Len(t) /\ Len(s \o t) % 2 = 0
        /\ Total(s \o t) = Total(s) + Total(t)
    BY <1>1, <1>2, Appended
  <2> DEFINE h1 == s \o t
  <2> HIDE DEF h1
  <2>5. /\ h1 \o e \in Seq(Bytes) /\ Len(h1 \o e) = Len(h1) + 2 /\ Len(h1 \o e) % 2 = 0
        /\ Total(h1 \o e) = Total(h1) + k
    BY <2>1, <2>2, <2>4, Appended DEF h1
  <2> DEFINE h2 == h1 \o e
  <2> HIDE DEF h2
  <2>6. /\ h2 \o n \in Seq(Bytes) /\ Len(h2 \o n) = Len(h2) + 2
        /\ Total(h2 \o n) = Total(h2) + Len(p.bytes)
    BY <1>1, <2>5, Appended DEF h2
  <2>8. h = h2 \o n
    BY DEF h1, h2
  <2>9. /\ Len(h1) = Len(s) + Len(t) /\ Total(h1) = Total(s) + Total(t)
        /\ Len(h2) = Len(h1) + 2 /\ Total(h2) = Total(h1) + k
    BY <2>4, <2>5 DEF h1, h2
  <2> HIDE DEF h
  <2>10. Len(h) = Len(s) + Len(t) + 4 /\ Total(h) = sum
    BY <2>6, <2>8, <2>9, <1>1, <1>2, <1>3
  <2>11. h \in Seq(Bytes) /\ Len(h) <= 2 * (Len(Prefix) + 2) + 8
    <3>1. Len(s) + Len(t) + 4 <= 2 * (Len(Prefix) + 2) + 8
      BY <1>2
    <3> QED
      BY <3>1, <2>6, <2>8, <2>10
  <2>12. ~(p.family = 4 /\ p.proto = "icmp")
    BY <1>5
  <2> HIDE DEF sum
  <2>13. Total(PseudoHeader(p)) = IF p.family = 4 /\ p.proto = "icmp" THEN 0 ELSE sum
    BY <2>3, <2>10, <2>12
  <2> QED
    BY <2>3, <2>11, <2>13 DEF sum, s, t, k
<1>6. CASE p.family = 4 /\ p.proto = "icmp"
  <2>1. PseudoHeader(p) = <<>>
    BY <1>6 DEF PseudoHeader
  <2>2. <<>> \in Seq(Bytes) /\ Len(<<>>) = 0
    OBVIOUS
  <2>3. Total(<<>>) = 0
    BY <2>2, TotalEmpty
  <2> QED
    BY <2>1, <2>2, <2>3, <1>2, <1>6
<1> QED
  BY <1>4, <1>5, <1>6, PacketParts

PacketTotal(p) == Total(p.bytes) + Total(PseudoHeader(p))

LEMMA PacketTotalTyped ==
    ASSUME NEW p, WellFormed(p)
    PROVE  /\ PacketTotal(p) \in Nat
           /\ p.family = 6 \/ p.proto # "icmp" => PacketTotal(p) > 0
<1>1. p.bytes \in Seq(Bytes) /\ p.source \in Seq(Bytes) /\ p.destination \in Seq(Bytes)
      /\ Len(p.bytes) \in Nat
  BY PacketParts
<1>2. Total(p.bytes) \in Nat /\ Total(p.source) \in Nat /\ Total(p.destination) \in Nat
  BY <1>1, TotalTyped
<1>3. Total(PseudoHeader(p)) \in Nat
  BY PseudoHeaderIs, TotalTyped
<1>4. ASSUME p.family = 6 \/ p.proto # "icmp" PROVE Total(PseudoHeader(p)) > 0
  <2>1. ~(p.family = 4 /\ p.proto = "icmp")
    BY <1>4
  <2>2. Total(PseudoHeader(p)) = Total(p.source) + Total(p.destination) + Len(p.bytes) + ProtocolNumber(p)
    BY <2>1, PseudoHeaderIs
  <2> QED
    BY <2>2, <1>1, <1>2, ProtocolNumberIs
<1> QED
  BY <1>2, <1>3, <1>4 DEF PacketTotal

LEMMA RightIs ==
    ASSUME NEW p, WellFormed(p)
    PROVE  IsRight(p) <=> ~HasNoChecksum(p) /\ PacketTotal(p) > 0 /\ Same(PacketTotal(p), 0)
<1>1. PacketTotal(p) \in Int
  BY PacketTotalTyped
<1>2. PacketTotal(p) % Ones = 0 <=> Same(PacketTotal(p), 0)
  BY <1>1, SameAsZero
<1>3. IsRight(p) <=> ~HasNoChecksum(p) /\ PacketTotal(p) > 0 /\ PacketTotal(p) % Ones = 0
  BY DEF IsRight, PacketTotal, Ones
<1> QED
  BY <1>2, <1>3

\* An ICMP message is verified as RFC 1071 says.
LEMMA IcmpVerified ==
    ASSUME NEW p, WellFormed(p), p.proto = "icmp"
    PROVE  Calculated(p.bytes, <<>>, PseudoHeader(p)) = 0 <=> IsRight(p)
<1> DEFINE a == p.bytes
           h == PseudoHeader(p)
<1>1. a \in Seq(Bytes) /\ h \in Seq(Bytes) /\ <<>> \in Seq(Bytes) /\ Len(<<>>) = 0
      /\ Len(a) \in Nat /\ Len(h) \in Nat /\ Len(Prefix) \in Nat
      /\ Len(h) <= 2 * (Len(Prefix) + 2) + 8
  BY PacketParts, PseudoHeaderIs, PrefixTyped
<1>2. Fits(Len(a) + Len(<<>>) + Len(h) + 2)
  <2> HIDE DEF a, h
  <2>1. /\ Len(a) + Len(<<>>) + Len(h) + 2 \in Nat
        /\ Len(a) + Len(<<>>) + Len(h) + 2 <= Len(a) + 2 * (Len(Prefix) + 2) + 10
    BY <1>1
  <2> QED
    BY <2>1, SizeFits DEF a
<1>3. Total(<<>>) = 0 /\ Total(a) \in Nat /\ Total(h) \in Nat
  BY <1>1, TotalEmpty, TotalTyped
<1>4. Total(a) + Total(<<>>) + Total(h) = PacketTotal(p)
  BY <1>3 DEF PacketTotal
<1>5. ~HasNoChecksum(p)
  BY DEF HasNoChecksum
<1> HIDE DEF a, h
<1>6. Calculated(a, <<>>, h) = 0 <=> PacketTotal(p) > 0 /\ Same(PacketTotal(p), 0)
  BY <1>1, <1>2, <1>4, CalculatedIs
<1> QED
  BY <1>5, <1>6, RightIs DEF a, h

\* One other byte is never without effect.
LEMMA ChangeShows ==
    ASSUME NEW s \in Seq(Bytes), NEW k \in 1..Len(s), NEW b \in Bytes, s[k] # b
    PROVE  ~Same(Total([s EXCEPT ![k] = b]) - Total(s), 0)
<1>1. s[k] \in Bytes /\ BYTE \in Nat /\ BYTE >= 4 /\ k \in Int
  BY ByteOfSeq, Width
<1>2. PICK c \in Int : c = b - s[k] /\ c # 0 /\ -BYTE < c /\ c < BYTE
  BY <1>1 DEF Bytes
<1>3. Weight(k) \in {1, BYTE}
  BY DEF Weight
<1>4. Total([s EXCEPT ![k] = b]) = Total(s) + c * Weight(k) /\ Total(s) \in Nat
  BY <1>2, TotalChange, TotalTyped
<1>5. PICK d \in Int : d = c * Weight(k) /\ d # 0 /\ -Ones < d /\ d < Ones
  <2>1. Ones = BYTE * BYTE - 1
    BY DEF Ones, WORD
  <2>2. CASE Weight(k) = 1
    <3>1. BYTE * BYTE >= BYTE + 1
      BY <1>1
    <3>2. c * 1 = c
      BY <1>2
    <3> QED
      BY <2>1, <2>2, <3>1, <3>2, <1>1, <1>2
  <2>3. CASE Weight(k) = BYTE
    <3>1. c <= BYTE - 1 /\ c >= -(BYTE - 1)
      BY <1>1, <1>2
    <3>2. c * BYTE <= (BYTE - 1) * BYTE /\ c * BYTE >= -((BYTE - 1) * BYTE)
      BY <3>1, <1>1
    <3>3. (BYTE - 1) * BYTE = BYTE * BYTE - BYTE
      BY <1>1
    <3>4. c * BYTE # 0 /\ c * BYTE \in Int
      BY <1>1, <1>2
    <3>5. BYTE * BYTE \in Int
      BY <1>1
    <3> QED
      BY <2>1, <2>3, <3>2, <3>3, <3>4, <3>5, <1>1
  <2> QED
    BY <1>3, <2>2, <2>3
<1>6. Total([s EXCEPT ![k] = b]) - Total(s) = d
  BY <1>4, <1>5
<1>7. ~Same(d, 0)
  BY <1>5, SameAsZero
<1> QED
  BY <1>6, <1>7

\* Two packets of which the sums differ are not both right.
LEMMA NotBothRight ==
    ASSUME NEW p, NEW q, WellFormed(p), WellFormed(q), IsRight(p),
           ~Same(PacketTotal(q) - PacketTotal(p), 0)
    PROVE  ~IsRight(q)
<1> SUFFICES ASSUME IsRight(q) PROVE FALSE
  OBVIOUS
<1>1. Same(PacketTotal(p), 0) /\ Same(PacketTotal(q), 0)
  BY RightIs
<1>2. PacketTotal(p) \in Int /\ PacketTotal(q) \in Int /\ 0 \in Int /\ 0 - 0 = 0
  BY PacketTotalTyped
<1>3. Same(PacketTotal(q) - PacketTotal(p), 0 - 0)
  BY <1>1, <1>2, SameSum, Zenon
<1> QED
  BY <1>2, <1>3

-----------------------------------------------------------------------------
(* Addresses and checksums are exchanged.                                   *)

LastOf(a) == SubSeq(a, Len(a) - ADDRESS + 1, Len(a))

LEMMA EndsAre == ASSUME NEW p PROVE Ends(p) = <<LastOf(p.source), LastOf(p.destination)>>
BY DEF Ends, LastOf

LEMMA Parts ==
    ASSUME NEW s \in Seq(Bytes), NEW t \in Seq(Bytes)
    PROVE  /\ s \o t \in Seq(Bytes) /\ Len(s \o t) = Len(s) + Len(t)
           /\ SubSeq(s \o t, 1, Len(s)) = s
           /\ SubSeq(s \o t, Len(s) + 1, Len(s) + Len(t)) = t
<1>1. s \o t \in Seq(Bytes) /\ Len(s \o t) = Len(s) + Len(t)
  OBVIOUS
<1>2. SubSeq(s \o t, 1, Len(s)) = s
  OBVIOUS
<1>3. SubSeq(s \o t, Len(s) + 1, Len(s) + Len(t)) = t
  OBVIOUS
<1> QED
  BY <1>1, <1>2, <1>3

LEMMA PairIsSeq == ASSUME NEW S, NEW b \in [1..2 -> S] PROVE b \in Seq(S) /\ Len(b) = 2
<1>1. b = <<b[1], b[2]>>
  OBVIOUS
<1>2. b[1] \in S /\ b[2] \in S
  OBVIOUS
<1>3. <<b[1], b[2]>> \in Seq(S) /\ Len(<<b[1], b[2]>>) = 2
  BY <1>2
<1> QED
  BY <1>1, <1>3

LEMMA EmbeddedIs ==
    ASSUME NEW a \in Seq(Bytes), Len(a) = 2
    PROVE  /\ Embedded(a) \in Seq(Bytes) /\ Len(Embedded(a)) = Len(Prefix) + 2
           /\ LastOf(Embedded(a)) = LastOf(a)
           /\ HasPrefix(Embedded(a)) /\ Extracted(Embedded(a)) = a
<1>1. Prefix \in Seq(Bytes) /\ Len(Prefix) \in Nat /\ ADDRESS = 2
  BY PrefixTyped
<1>2. /\ Prefix \o a \in Seq(Bytes) /\ Len(Prefix \o a) = Len(Prefix) + Len(a)
      /\ SubSeq(Prefix \o a, 1, Len(Prefix)) = Prefix
      /\ SubSeq(Prefix \o a, Len(Prefix) + 1, Len(Prefix) + Len(a)) = a
  <2>1. a \in Seq(Bytes) /\ Prefix \in Seq(Bytes)
    BY <1>1
  <2> QED
    BY <2>1, Parts
<1>5. (Len(Prefix) + 2) - 2 + 1 = Len(Prefix) + 1 /\ 2 - 2 + 1 = 1
  BY <1>1
<1>6. SubSeq(a, 1, 2) = a
  OBVIOUS
<1>7. LastOf(Prefix \o a) = a /\ LastOf(a) = a
  BY <1>1, <1>2, <1>5, <1>6 DEF LastOf
<1> QED
  BY <1>2, <1>7 DEF Embedded, Extracted, HasPrefix

LEMMA ExtractedIs ==
    ASSUME NEW a \in Seq(Bytes), Len(a) = Len(Prefix) + 2
    PROVE  /\ Extracted(a) \in Seq(Bytes) /\ Len(Extracted(a)) = 2
           /\ LastOf(Extracted(a)) = LastOf(a)
<1>1. Prefix \in Seq(Bytes) /\ Len(Prefix) \in Nat /\ ADDRESS = 2
  BY PrefixTyped
<1> DEFINE e == SubSeq(a, Len(Prefix) + 1, Len(Prefix) + 2)
<1>2. e \in Seq(Bytes) /\ Len(e) = 2
  BY <1>1
<1>3. Extracted(a) = e
  BY DEF Extracted
<1>4. (Len(Prefix) + 2) - 2 + 1 = Len(Prefix) + 1 /\ 2 - 2 + 1 = 1
  BY <1>1
<1>5. LastOf(a) = e
  BY <1>1, <1>4 DEF LastOf
<1> HIDE DEF e
<1>6. SubSeq(e, 1, 2) = e
  BY <1>2
<1>7. LastOf(e) = e
  BY <1>1, <1>2, <1>4, <1>6 DEF LastOf
<1> QED
  BY <1>2, <1>3, <1>5, <1>7

LEMMA TranslatedIs ==
    ASSUME datagram.family \in {4, 6}, NEW a \in Seq(Bytes), Len(a) = AddressSize(datagram.family)
    PROVE  /\ Translated(a) \in Seq(Bytes)
           /\ Len(Translated(a)) = AddressSize(10 - datagram.family)
           /\ LastOf(Translated(a)) = LastOf(a)
           /\ a \in Hosts(datagram.family) => Translated(a) \in Hosts(10 - datagram.family)
<1>1. ADDRESS = 2
  BY PrefixTyped
<1>2. CASE datagram.family = 4
  <2>1. Translated(a) = Embedded(a) /\ 10 - datagram.family = 6 /\ Len(a) = 2
    BY <1>1, <1>2 DEF Translated, AddressSize
  <2>2. AddressSize(6) = Len(Prefix) + 2
    BY <1>1 DEF AddressSize
  <2>3. a \in Hosts(4) => Embedded(a) \in Hosts(6)
    BY DEF Hosts, Embedded
  <2> QED
    BY <2>1, <2>2, <2>3, <1>2, EmbeddedIs
<1>3. CASE datagram.family = 6
  <2>1. Translated(a) = Extracted(a) /\ 10 - datagram.family = 4 /\ Len(a) = Len(Prefix) + 2
    BY <1>1, <1>3 DEF Translated, AddressSize
  <2>2. AddressSize(4) = 2
    BY <1>1 DEF AddressSize
  <2>3. ASSUME a \in Hosts(6) PROVE Extracted(a) \in Hosts(4)
    <3>1. PICK b \in Addresses4 : a = Prefix \o b
      BY <2>3 DEF Hosts
    <3>2. b \in [1..2 -> Bytes]
      BY <1>1, IntegrityAssumption
    <3>3. b \in Seq(Bytes) /\ Len(b) = 2
      BY <3>2, PairIsSeq
    <3>4. Extracted(a) = b
      BY <3>1, <3>3, EmbeddedIs DEF Embedded
    <3> QED
      BY <3>4 DEF Hosts
  <2> QED
    BY <2>1, <2>2, <2>3, <1>3, ExtractedIs
<1> QED
  BY <1>2, <1>3

LEMMA HostIs ==
    ASSUME NEW f \in {4, 6}, NEW a \in Hosts(f)
    PROVE  a \in Seq(Bytes) /\ Len(a) = AddressSize(f) /\ (f = 6 => HasPrefix(a))
<1>1. ADDRESS = 2
  BY PrefixTyped
<1>2. ASSUME NEW b \in Addresses4 PROVE b \in Seq(Bytes) /\ Len(b) = 2
  <2>1. b \in [1..2 -> Bytes]
    BY <1>1, IntegrityAssumption
  <2> QED
    BY <2>1, PairIsSeq
<1>3. CASE f = 4
  BY <1>1, <1>2, <1>3 DEF Hosts, AddressSize
<1>4. CASE f = 6
  <2>1. PICK b \in Addresses4 : a = Embedded(b)
    BY <1>4 DEF Hosts, Embedded
  <2>2. Len(a) = Len(Prefix) + 2 /\ a \in Seq(Bytes) /\ HasPrefix(a)
    BY <2>1, <1>2, EmbeddedIs
  <2> QED
    BY <2>2, <1>1, <1>4 DEF AddressSize
<1> QED
  BY <1>3, <1>4

\* The packet with the other family's addresses.
LEMMA ReaddressedIs ==
    ASSUME WellFormed(datagram)
    PROVE  /\ WellFormed(Readdressed)
           /\ Readdressed.family = 10 - datagram.family
           /\ Readdressed.proto = datagram.proto
           /\ Readdressed.source = Translated(datagram.source)
           /\ Readdressed.destination = Translated(datagram.destination)
           /\ Readdressed.bytes = datagram.bytes
           /\ Ends(Readdressed) = Ends(datagram)
<1>1. /\ datagram.family \in {4, 6} /\ datagram.proto \in Protocols
      /\ datagram.source \in Seq(Bytes) /\ datagram.destination \in Seq(Bytes)
      /\ datagram.bytes \in Seq(Bytes)
      /\ Len(datagram.source) = AddressSize(datagram.family)
      /\ Len(datagram.destination) = AddressSize(datagram.family)
  BY PacketParts
<1>2. /\ datagram \in Packet
      /\ \E d \in Data : Len(datagram.bytes) = Len(d) + 2
  BY DEF WellFormed
<1>3. /\ Readdressed.family = 10 - datagram.family
      /\ Readdressed.proto = datagram.proto
      /\ Readdressed.source = Translated(datagram.source)
      /\ Readdressed.destination = Translated(datagram.destination)
      /\ Readdressed.bytes = datagram.bytes
      /\ Readdressed = [family |-> 10 - datagram.family, proto |-> datagram.proto,
                        source |-> Translated(datagram.source),
                        destination |-> Translated(datagram.destination),
                        bytes |-> datagram.bytes]
  <2>1. PICK f \in {4, 6}, pr \in Protocols, sr \in Seq(Bytes), de \in Seq(Bytes), by \in Seq(Bytes) :
           datagram = [family |-> f, proto |-> pr, source |-> sr, destination |-> de, bytes |-> by]
    BY <1>2 DEF Packet
  <2> DEFINE q == [family |-> 10 - f, proto |-> pr, source |-> Translated(sr),
                   destination |-> Translated(de), bytes |-> by]
  <2>2. /\ datagram.family = f /\ datagram.proto = pr /\ datagram.source = sr
        /\ datagram.destination = de /\ datagram.bytes = by
    BY <2>1
  <2> HIDE DEF Translated
  <2>4. Readdressed = q
    BY <2>2 DEF Readdressed
  <2>5. /\ q.family = 10 - f /\ q.proto = pr /\ q.source = Translated(sr)
        /\ q.destination = Translated(de) /\ q.bytes = by
    OBVIOUS
  <2> QED
    BY <2>2, <2>4, <2>5
<1>4. 10 - datagram.family \in {4, 6}
  BY <1>1
<1>5. /\ Translated(datagram.source) \in Seq(Bytes)
      /\ Translated(datagram.destination) \in Seq(Bytes)
      /\ Len(Translated(datagram.source)) = AddressSize(10 - datagram.family)
      /\ Len(Translated(datagram.destination)) = AddressSize(10 - datagram.family)
      /\ LastOf(Translated(datagram.source)) = LastOf(datagram.source)
      /\ LastOf(Translated(datagram.destination)) = LastOf(datagram.destination)
  BY <1>1, TranslatedIs
<1>6. Readdressed \in Packet
  BY <1>1, <1>3, <1>4, <1>5 DEF Packet
<1>7. WellFormed(Readdressed)
  BY <1>2, <1>3, <1>5, <1>6 DEF WellFormed
<1>8. Ends(Readdressed) = Ends(datagram)
  BY <1>3, <1>5, EndsAre
<1> QED
  BY <1>3, <1>7, <1>8

\* A checksum is exchanged, and nothing else.
LEMMA WithChecksumIs ==
    ASSUME NEW s \in Seq(Bytes), Len(s) >= 3, NEW C \in Nat, C <= Ones
    PROVE  LET t == WithChecksum(s, C)
           IN  /\ t \in Seq(Bytes) /\ Len(t) = Len(s)
               /\ SubSeq(t, 3, Len(t)) = SubSeq(s, 3, Len(s))
               /\ t[1] \in Bytes /\ t[2] \in Bytes /\ HostWord(t[1], t[2]) = C
               /\ Same(Total(t), Turn * C + Total(SubSeq(s, 3, Len(s))))
               /\ Total(t) = (BYTE * t[1] + t[2]) + Total(SubSeq(s, 3, Len(s)))
<1>1. PICK x \in Bytes, y \in Bytes :
        BytesOf(C) = <<x, y>> /\ Same(BYTE * x + y, Turn * C) /\ HostWord(x, y) = C
  BY BytesOfIs
<1> DEFINE r == SubSeq(s, 3, Len(s))
           t == <<x, y>> \o r
<1>2. r \in Seq(Bytes) /\ Len(r) = Len(s) - 2 /\ Len(s) \in Nat
  OBVIOUS
<1>3. WithChecksum(s, C) = t
  BY <1>1 DEF WithChecksum
<1> HIDE DEF r
<1>4. t \in Seq(Bytes) /\ Len(t) = Len(s) /\ t[1] = x /\ t[2] = y
  BY <1>2
<1>5. SubSeq(t, 3, Len(t)) = r
  BY <1>2
<1>6. Total(t) = (BYTE * t[1] + t[2]) + Total(r)
  <2>1. Len(t) >= 2
    BY <1>2
  <2> HIDE DEF t
  <2> QED
    BY <2>1, <1>4, <1>5, TotalFromThird
<1>7. Same(Total(t), Turn * C + Total(r))
  <2>1. Total(r) \in Int /\ BYTE * x + y \in Int /\ Turn * C \in Int
    <3>1. C \in Int
      OBVIOUS
    <3> QED
      BY <3>1, <1>2, TotalTyped, HostWordTurned, TurnOfInt
  <2>2. Same(Total(r), Total(r))
    BY <2>1, SameItself
  <2>3. Same((BYTE * x + y) + Total(r), Turn * C + Total(r))
    BY <2>1, <2>2, <1>1, SameSum, Zenon
  <2>4. Total(t) = (BYTE * x + y) + Total(r)
    <3> HIDE DEF t
    <3> QED
      BY <1>4, <1>6
  <2> QED
    BY <2>3, <2>4, Zenon
<1> HIDE DEF t
<1> QED
  BY <1>1, <1>3, <1>4, <1>5, <1>6, <1>7 DEF r

LEMMA WithBytes ==
    ASSUME NEW p, WellFormed(p), NEW b \in Seq(Bytes), Len(b) = Len(p.bytes)
    PROVE  LET q == [p EXCEPT !.bytes = b]
           IN  /\ WellFormed(q)
               /\ q.family = p.family /\ q.proto = p.proto /\ q.bytes = b
               /\ q.source = p.source /\ q.destination = p.destination
               /\ PseudoHeader(q) = PseudoHeader(p)
               /\ PacketTotal(q) = Total(b) + Total(PseudoHeader(p))
               /\ Ends(q) = Ends(p)
<1> DEFINE q == [p EXCEPT !.bytes = b]
<1>1. p \in Packet /\ \E d \in Data : Len(p.bytes) = Len(d) + 2
  BY DEF WellFormed
<1>2. /\ q.family = p.family /\ q.proto = p.proto /\ q.bytes = b
      /\ q.source = p.source /\ q.destination = p.destination
      /\ q \in Packet
  BY <1>1 DEF Packet
<1> HIDE DEF q
<1>3. WellFormed(q)
  BY <1>1, <1>2 DEF WellFormed
<1>4. ProtocolNumber(q) = ProtocolNumber(p)
  BY <1>2 DEF ProtocolNumber
<1>5. PseudoHeader(q) = PseudoHeader(p)
  BY <1>2, <1>4 DEF PseudoHeader
<1>6. PacketTotal(q) = Total(b) + Total(PseudoHeader(p))
  BY <1>2, <1>5 DEF PacketTotal
<1>7. Ends(q) = Ends(p)
  BY <1>2, EndsAre
<1> QED
  BY <1>2, <1>3, <1>5, <1>6, <1>7 DEF q

LEMMA ChecksumIs ==
    ASSUME NEW p, WellFormed(p)
    PROVE  /\ p.bytes[1] \in Bytes /\ p.bytes[2] \in Bytes /\ p.bytes[3] \in Bytes
           /\ Checksum(p) \in Nat /\ Checksum(p) <= Ones
           /\ Same(BYTE * p.bytes[1] + p.bytes[2], Turn * Checksum(p))
           /\ HasNoChecksum(p) <=> p.proto = "udp" /\ Checksum(p) = 0
           /\ Total(p.bytes) = (BYTE * p.bytes[1] + p.bytes[2]) + Total(Content(p))
           /\ Content(p) \in Seq(Bytes) /\ Total(Content(p)) \in Nat
<1>1. p.bytes \in Seq(Bytes) /\ Len(p.bytes) \in Nat /\ Len(p.bytes) >= 3
  BY PacketParts
<1>2. p.bytes[1] \in Bytes /\ p.bytes[2] \in Bytes /\ p.bytes[3] \in Bytes
  BY <1>1
<1>3. /\ Checksum(p) \in Nat /\ Checksum(p) <= Ones
      /\ Checksum(p) = 0 <=> p.bytes[1] = 0 /\ p.bytes[2] = 0
  BY <1>2, WordTurned DEF Checksum
<1>4. Same(BYTE * p.bytes[1] + p.bytes[2], Turn * Checksum(p))
  BY <1>2, HostWordTurned DEF Checksum
<1>5. /\ Content(p) \in Seq(Bytes)
      /\ Total(p.bytes) = (BYTE * p.bytes[1] + p.bytes[2]) + Total(Content(p))
  <2>1. Len(p.bytes) >= 2
    BY <1>1
  <2> QED
    BY <1>1, <2>1, TotalFromThird DEF Content
<1> QED
  BY <1>2, <1>3, <1>4, <1>5, TotalTyped DEF HasNoChecksum

LEMMA FourMultiples ==
    ASSUME NEW a \in Int, NEW b \in Int, NEW c \in Int, NEW d \in Int
    PROVE  (a + b + c - d) * Ones = a * Ones + b * Ones + c * Ones - d * Ones
<1>1. ASSUME NEW o \in Int PROVE (a + b + c - d) * o = a * o + b * o + c * o - d * o
  OBVIOUS
<1> QED
  BY <1>1, OnesTyped

AdaptedPacket == [Readdressed EXCEPT !.bytes = Adapted(Readdressed)]

\* Adapting the checksum to other addresses keeps its rightness, and its wrongness.
LEMMA AdaptedIs ==
    ASSUME WellFormed(datagram), datagram.proto # "icmp"
    PROVE  /\ WellFormed(AdaptedPacket)
           /\ AdaptedPacket.family = 10 - datagram.family /\ AdaptedPacket.proto = datagram.proto
           /\ AdaptedPacket.source = Translated(datagram.source)
           /\ AdaptedPacket.destination = Translated(datagram.destination)
           /\ Len(AdaptedPacket.bytes) = Len(datagram.bytes)
           /\ Content(AdaptedPacket) = Content(datagram)
           /\ Ends(AdaptedPacket) = Ends(datagram)
           /\ ~HasNoChecksum(AdaptedPacket)
           /\ Same(PacketTotal(AdaptedPacket), PacketTotal(datagram))
<1> DEFINE r == Readdressed
           old == Checksum(datagram)
           a == datagram.source \o datagram.destination
           b == r.source \o r.destination
           R == Recalculated(old, a, b)
           C == IF r.proto = "udp" THEN UdpChecksum(R) ELSE R
           t == WithChecksum(r.bytes, C)
           q == AdaptedPacket
<1>1. /\ WellFormed(r)
      /\ r.family = 10 - datagram.family /\ r.proto = datagram.proto
      /\ r.source = Translated(datagram.source) /\ r.destination = Translated(datagram.destination)
      /\ r.bytes = datagram.bytes
      /\ Ends(r) = Ends(datagram)
  BY ReaddressedIs
<1> HIDE DEF r
<1>2. /\ datagram.source \in Seq(Bytes) /\ datagram.destination \in Seq(Bytes)
      /\ Len(datagram.source) % 2 = 0 /\ Len(datagram.destination) % 2 = 0
      /\ r.source \in Seq(Bytes) /\ r.destination \in Seq(Bytes)
      /\ Len(r.source) % 2 = 0 /\ Len(r.destination) % 2 = 0
      /\ Len(datagram.source) <= Len(Prefix) + 2 /\ Len(datagram.destination) <= Len(Prefix) + 2
      /\ Len(r.source) <= Len(Prefix) + 2 /\ Len(r.destination) <= Len(Prefix) + 2
  BY <1>1, PacketParts, AddressSizeIs
<1>3. /\ a \in Seq(Bytes) /\ Total(a) = Total(datagram.source) + Total(datagram.destination)
      /\ Len(a) = Len(datagram.source) + Len(datagram.destination)
  BY <1>2, Appended
<1>4. /\ b \in Seq(Bytes) /\ Total(b) = Total(r.source) + Total(r.destination)
      /\ Len(b) = Len(r.source) + Len(r.destination)
  BY <1>2, Appended
<1> HIDE DEF a, b
<1>5. Fits(Len(a)) /\ Fits(Len(b))
  <2>1. /\ Len(datagram.bytes) \in Nat /\ Len(r.bytes) \in Nat /\ Len(Prefix) \in Nat
        /\ Len(a) \in Nat /\ Len(b) \in Nat
    <3>1. Len(a) \in Nat /\ Len(b) \in Nat
      <4>1. a \in Seq(Bytes) /\ b \in Seq(Bytes)
        BY <1>3, <1>4
      <4> QED
        BY <4>1
    <3>2. Len(datagram.bytes) \in Nat /\ Len(Prefix) \in Nat
      BY PacketParts, PrefixTyped
    <3> QED
      BY <3>1, <3>2, <1>1
  <2>2. /\ Len(datagram.source) \in Nat /\ Len(datagram.destination) \in Nat
        /\ Len(r.source) \in Nat /\ Len(r.destination) \in Nat
    BY <1>2
  <2>3. /\ Len(a) <= Len(datagram.bytes) + 2 * (Len(Prefix) + 2) + 10
        /\ Len(b) <= Len(r.bytes) + 2 * (Len(Prefix) + 2) + 10
    <3>1. /\ Len(datagram.source) <= Len(Prefix) + 2 /\ Len(datagram.destination) <= Len(Prefix) + 2
          /\ Len(r.source) <= Len(Prefix) + 2 /\ Len(r.destination) <= Len(Prefix) + 2
      BY <1>2
    <3>2. ASSUME NEW m \in Nat, NEW x \in Nat, NEW y \in Nat, NEW n \in Nat, x <= m + 2, y <= m + 2
          PROVE  x + y <= n + 2 * (m + 2) + 10
      BY <3>2
    <3>3. /\ Len(datagram.source) + Len(datagram.destination)
               <= Len(datagram.bytes) + 2 * (Len(Prefix) + 2) + 10
          /\ Len(r.source) + Len(r.destination) <= Len(r.bytes) + 2 * (Len(Prefix) + 2) + 10
      BY <3>1, <3>2, <2>1, <2>2
    <3> QED
      BY <3>3, <1>3, <1>4
  <2> QED
    BY <2>1, <2>3, <1>1, SizeFits
<1>6. old \in Nat /\ old <= Ones /\ Same(BYTE * datagram.bytes[1] + datagram.bytes[2], Turn * old)
  BY ChecksumIs
<1> HIDE DEF old
<1>7. R \in Nat /\ R < Ones /\ Same(Turn * R, Turn * old + Total(a) - Total(b))
  BY <1>3, <1>4, <1>5, <1>6, RecalculatedIs
<1> HIDE DEF R
<1>8. C \in Nat /\ C <= Ones /\ Same(C, R) /\ (r.proto = "udp" => C # 0)
  <2>0. Ones \in Nat /\ Ones >= 15 /\ WORD - 1 = Ones
    BY OnesTyped
  <2>1. CASE r.proto = "udp" /\ R = 0
    <3>1. C = Ones
      BY <2>0, <2>1 DEF UdpChecksum
    <3>2. Ones = 0 + 1 * Ones /\ 1 \in Int
      BY <2>0
    <3>3. Same(Ones, 0)
      BY <3>2 DEF Same
    <3> QED
      BY <2>0, <2>1, <3>1, <3>3
  <2>2. CASE ~(r.proto = "udp" /\ R = 0)
    <3>1. C = R
      BY <2>2 DEF UdpChecksum
    <3>2. R \in Int
      BY <1>7
    <3> QED
      <4>1. C \in Nat /\ C <= Ones
        BY <3>1, <1>7, <2>0
      <4>2. Same(C, R)
        BY <3>1, <3>2, SameItself
      <4>3. r.proto = "udp" => C # 0
        BY <3>1, <2>2
      <4> QED
        BY <4>1, <4>2, <4>3
  <2> QED
    BY <2>1, <2>2
<1> HIDE DEF C
<1>9. datagram.bytes \in Seq(Bytes) /\ Len(datagram.bytes) >= 3
  BY PacketParts
<1>10. /\ t \in Seq(Bytes) /\ Len(t) = Len(datagram.bytes)
       /\ SubSeq(t, 3, Len(t)) = SubSeq(datagram.bytes, 3, Len(datagram.bytes))
       /\ HostWord(t[1], t[2]) = C
       /\ Same(Total(t), Turn * C + Total(SubSeq(datagram.bytes, 3, Len(datagram.bytes))))
  BY <1>1, <1>8, <1>9, WithChecksumIs
<1>11. q = [r EXCEPT !.bytes = t]
  BY DEF AdaptedPacket, Adapted, r, t, C, R, old, a, b
<1> HIDE DEF t, q
<1>12. /\ WellFormed(q)
       /\ q.family = r.family /\ q.proto = r.proto /\ q.bytes = t
       /\ q.source = r.source /\ q.destination = r.destination
       /\ PacketTotal(q) = Total(t) + Total(PseudoHeader(r))
       /\ Ends(q) = Ends(r)
  BY <1>1, <1>10, <1>11, WithBytes
<1>13. Content(q) = Content(datagram)
  BY <1>10, <1>12 DEF Content
<1>14. ~HasNoChecksum(q)
  BY <1>8, <1>10, <1>12, ChecksumIs DEF Checksum
<1>15. Same(PacketTotal(q), PacketTotal(datagram))
  <2> DEFINE rest == Total(Content(datagram))
             n == Len(datagram.bytes)
             k == ProtocolNumber(datagram)
             head == BYTE * datagram.bytes[1] + datagram.bytes[2]
  <2>1. /\ Total(datagram.bytes) = head + rest /\ rest \in Nat
        /\ Same(Total(t), Turn * C + rest)
    BY <1>10, ChecksumIs DEF Content
  <2>2. ProtocolNumber(r) = k /\ k \in Nat /\ n \in Nat
    <3>1. ProtocolNumber(r) = k
      BY <1>1 DEF ProtocolNumber
    <3> QED
      BY <3>1, ProtocolNumberIs, PacketParts
  <2>3. /\ Total(PseudoHeader(datagram)) = Total(a) + n + k
        /\ Total(PseudoHeader(r)) = Total(b) + n + k
    <3>1. /\ ~(datagram.family = 4 /\ datagram.proto = "icmp")
          /\ ~(r.family = 4 /\ r.proto = "icmp")
      BY <1>1
    <3>2. /\ Total(PseudoHeader(datagram)) =
               Total(datagram.source) + Total(datagram.destination) + Len(datagram.bytes)
               + ProtocolNumber(datagram)
          /\ Total(PseudoHeader(r)) =
               Total(r.source) + Total(r.destination) + Len(r.bytes) + ProtocolNumber(r)
      BY <1>1, <3>1, PseudoHeaderIs
    <3> QED
      BY <3>2, <2>2, <1>1, <1>3, <1>4
  <2> HIDE DEF rest, n, k, head
  <2>4. Total(a) \in Int /\ Total(b) \in Int /\ Total(t) \in Int
    BY <1>3, <1>4, <1>10, TotalTyped
  <2>5. Turn * C \in Int /\ Turn * R \in Int /\ Turn * old \in Int /\ head \in Int
    <3>1. C \in Int /\ R \in Int /\ old \in Int
      BY <1>6, <1>7, <1>8
    <3>2. head \in Int
      <4>1. datagram.bytes[1] \in Bytes /\ datagram.bytes[2] \in Bytes
        BY ChecksumIs
      <4> QED
        BY <4>1, HostWordTurned DEF head
    <3> QED
      BY <3>1, <3>2, TurnOfInt
  <2>6. Same(Turn * C, Turn * R)
    <3>1. C \in Int /\ R \in Int /\ Turn \in Int
      BY <1>7, <1>8, TurnTyped
    <3> QED
      BY <3>1, <1>8, SameProduct, Zenon
  <2>7. PICK k1 \in Int : Turn * C = Turn * R + k1 * Ones
    BY <2>6 DEF Same
  <2>8. PICK k2 \in Int : Turn * R = (Turn * old + Total(a) - Total(b)) + k2 * Ones
    BY <1>7 DEF Same
  <2>9. PICK k3 \in Int : Total(t) = (Turn * C + rest) + k3 * Ones
    BY <2>1 DEF Same
  <2>10. PICK k4 \in Int : head = Turn * old + k4 * Ones
    BY <1>6 DEF Same, head
  <2>11. /\ k1 + k2 + k3 - k4 \in Int
         /\ (k1 + k2 + k3 - k4) * Ones = k1 * Ones + k2 * Ones + k3 * Ones - k4 * Ones
         /\ k1 * Ones \in Int /\ k2 * Ones \in Int /\ k3 * Ones \in Int /\ k4 * Ones \in Int
    BY FourMultiples, OnesTyped
  <2>12. /\ PacketTotal(q) = Total(t) + (Total(b) + n + k)
         /\ PacketTotal(datagram) = (head + rest) + (Total(a) + n + k)
    BY <1>12, <2>1, <2>3 DEF PacketTotal
  <2>13. PacketTotal(q) = PacketTotal(datagram) + (k1 + k2 + k3 - k4) * Ones
    BY <2>1, <2>2, <2>4, <2>5, <2>7, <2>8, <2>9, <2>10, <2>11, <2>12
  <2> QED
    BY <2>11, <2>13 DEF Same
<1> QED
  BY <1>1, <1>10, <1>12, <1>13, <1>14, <1>15 DEF q

-----------------------------------------------------------------------------
(* ICMP messages.                                                           *)

\* An echo message with its type in the other family.
Turned(s) == [s EXCEPT ![1] = OtherType(@)]

LEMMA OtherTypeIs ==
    ASSUME NEW b \in Bytes PROVE OtherType(b) \in Bytes /\ OtherType(OtherType(b)) = b
BY Width DEF OtherType, Bytes

\* What follows the first bytes.
LEMMA RestIs ==
    ASSUME NEW s \in Seq(Bytes), NEW k \in Nat, k >= 1, NEW n \in Nat, n = Len(s), k <= n + 1
    PROVE  /\ SubSeq(s, k, n) \in Seq(Bytes)
           /\ Len(SubSeq(s, k, n)) = n + 1 - k
           /\ \A i \in 1..(n + 1 - k) : SubSeq(s, k, n)[i] = s[i + k - 1]
<1>1. \A i \in k..n : s[i] \in Bytes
  OBVIOUS
<1>2. SubSeq(s, k, n) \in Seq(Bytes)
  BY <1>1
<1>3. Len(SubSeq(s, k, n)) = n + 1 - k
  OBVIOUS
<1>4. \A i \in 1..(n + 1 - k) : SubSeq(s, k, n)[i] = s[i + k - 1]
  OBVIOUS
<1> QED
  BY <1>2, <1>3, <1>4

LEMMA Divided ==
    ASSUME NEW s \in Seq(Bytes), NEW k \in Nat, k >= 1, k <= Len(s)
    PROVE  /\ SubSeq(s, 1, k) \in Seq(Bytes) /\ Len(SubSeq(s, 1, k)) = k
           /\ s = SubSeq(s, 1, k) \o SubSeq(s, k + 1, Len(s))
  OBVIOUS

LEMMA Elementwise ==
    ASSUME NEW s \in Seq(Bytes), NEW t \in Seq(Bytes), NEW n \in Nat, Len(s) = n, Len(t) = n,
           \A i \in 1..n : s[i] = t[i]
    PROVE  s = t
  OBVIOUS

\* A sequence with another first byte.
LEMMA FirstChanged ==
    ASSUME NEW s \in Seq(Bytes), NEW n \in Nat, n = Len(s), n >= 1, NEW b \in Bytes
    PROVE  LET t == [s EXCEPT ![1] = b]
           IN  /\ t \in Seq(Bytes) /\ Len(t) = n /\ t[1] = b
               /\ \A i \in 2..n : t[i] = s[i]
  OBVIOUS

LEMMA TurnedIs ==
    ASSUME NEW s \in Seq(Bytes), NEW n \in Nat, n = Len(s), n >= 1
    PROVE  /\ Turned(s) \in Seq(Bytes) /\ Len(Turned(s)) = n
           /\ Turned(s)[1] = OtherType(s[1])
           /\ \A i \in 2..n : Turned(s)[i] = s[i]
<1>1. s[1] \in Bytes
  OBVIOUS
<1>2. OtherType(s[1]) \in Bytes
  BY <1>1, OtherTypeIs
<1>3. Turned(s) = [s EXCEPT ![1] = OtherType(s[1])]
  BY DEF Turned
<1> QED
  BY <1>2, <1>3, FirstChanged

LEMMA TurnedBack ==
    ASSUME NEW s \in Seq(Bytes), Len(s) >= 1
    PROVE  Turned(s) \in Seq(Bytes) /\ Turned(Turned(s)) = s
<1> DEFINE n == Len(s)
           t == Turned(s)
           u == Turned(t)
<1>1. n \in Nat /\ n >= 1 /\ s[1] \in Bytes
  OBVIOUS
<1> HIDE DEF n
<1>2. /\ t \in Seq(Bytes) /\ Len(t) = n /\ t[1] = OtherType(s[1])
      /\ \A i \in 2..n : t[i] = s[i]
  BY <1>1, TurnedIs DEF n
<1> HIDE DEF t
<1>3. /\ u \in Seq(Bytes) /\ Len(u) = n /\ u[1] = OtherType(t[1])
      /\ \A i \in 2..n : u[i] = t[i]
  BY <1>1, <1>2, TurnedIs
<1> HIDE DEF u
<1>4. u[1] = s[1]
  BY <1>1, <1>2, <1>3, OtherTypeIs
<1>5. \A i \in 1..n : u[i] = s[i]
  <2>1. \A i \in 1..n : i = 1 \/ i \in 2..n
    OBVIOUS
  <2> QED
    BY <2>1, <1>2, <1>3, <1>4
<1>6. u = s
  BY <1>1, <1>3, <1>5, Elementwise DEF n
<1> QED
  BY <1>2, <1>6 DEF t, u

\* The message in its two parts.
LEMMA MessageParts ==
    ASSUME NEW m \in Seq(Bytes), Len(m) >= 3
    PROVE  LET start == MessageStart(m)
               end == SubSeq(m, Len(start) + 1, Len(m))
           IN  /\ start \in Seq(Bytes) /\ end \in Seq(Bytes)
               /\ Len(start) + Len(end) = Len(m)
               /\ Total(start) + Total(end) = Total(m)
<1> DEFINE k == IF Len(m) < 4 THEN Len(m) ELSE 4
           start == SubSeq(m, 1, k)
           end == SubSeq(m, k + 1, Len(m))
<1>1. Len(m) \in Nat /\ k \in Nat /\ k >= 1 /\ k <= Len(m) /\ (k = Len(m) \/ k = 4)
  OBVIOUS
<1>2. MessageStart(m) = start
  BY DEF MessageStart, START
<1> HIDE DEF k
<1>3. start \in Seq(Bytes) /\ Len(start) = k /\ m = start \o end
  BY <1>1, Divided
<1>4. end \in Seq(Bytes) /\ Len(end) = Len(m) - k
  <2>1. k + 1 \in Nat /\ k + 1 >= 1 /\ k + 1 <= Len(m) + 1 /\ Len(m) + 1 - (k + 1) = Len(m) - k
    BY <1>1
  <2> QED
    BY <1>1, <2>1, RestIs
<1> HIDE DEF start, end
<1>5. Total(start) + Total(end) = Total(m)
  <2>1. Total(start) \in Nat
    BY <1>3, TotalTyped
  <2>2. CASE k = 4
    <3>1. Len(start) % 2 = 0
      BY <1>3, <2>2
    <3> QED
      BY <1>3, <1>4, <3>1, TotalConcat
  <2>3. CASE k = Len(m)
    <3>1. Len(end) = 0
      BY <1>1, <1>4, <2>3
    <3>2. Total(end) = 0
      BY <1>4, <3>1, TotalEmpty
    <3>4. end = <<>>
      BY <1>4, <3>1
    <3>3. m = start
      BY <1>3, <3>4
    <3> QED
      BY <2>1, <3>2, <3>3
  <2> QED
    BY <1>1, <2>2, <2>3
<1>6. Len(start) + Len(end) = Len(m)
  BY <1>1, <1>3, <1>4
<1>7. SubSeq(m, Len(start) + 1, Len(m)) = end
  BY <1>3 DEF end
<1> QED
  BY <1>2, <1>3, <1>4, <1>5, <1>6, <1>7

\* The rewritten message before it has a checksum.
Message(p) == <<0, 0, OtherType(p.bytes[3])>> \o SubSeq(p.bytes, 4, Len(p.bytes))

LEMMA MessageIs ==
    ASSUME NEW p, WellFormed(p)
    PROVE  /\ Message(p) \in Seq(Bytes) /\ Len(Message(p)) = Len(p.bytes)
           /\ SubSeq(Message(p), 3, Len(p.bytes)) = Turned(Content(p))
           /\ Total(Message(p)) = Total(Turned(Content(p)))
<1> DEFINE s == p.bytes
           n == Len(s)
           t == OtherType(s[3])
           w == SubSeq(s, 4, n)
           c == SubSeq(s, 3, n)
           m == <<0, 0, t>> \o w
           u == SubSeq(m, 3, n)
<1>1. s \in Seq(Bytes) /\ n \in Nat /\ n >= 3 /\ s[3] \in Bytes
  BY PacketParts, ChecksumIs
<1>2. t \in Bytes /\ 0 \in Bytes
  BY <1>1, OtherTypeIs, Width DEF Bytes
<1>3. Message(p) = m /\ Content(p) = c
  BY DEF Message, Content
<1>4. w \in Seq(Bytes) /\ Len(w) = n - 3 /\ \A i \in 1..(n - 3) : w[i] = s[i + 3]
  <2> HIDE DEF s
  <2>1. 4 <= n + 1 /\ n + 1 - 4 = n - 3 /\ \A i \in 1..(n - 3) : i + 4 - 1 = i + 3
    BY <1>1
  <2> HIDE DEF n
  <2>2. n = Len(s)
    BY DEF n
  <2> QED
    BY <1>1, <2>1, <2>2, RestIs
<1>5. c \in Seq(Bytes) /\ Len(c) = n - 2 /\ \A i \in 1..(n - 2) : c[i] = s[i + 2]
  <2> HIDE DEF s
  <2>1. 3 <= n + 1 /\ n + 1 - 3 = n - 2 /\ \A i \in 1..(n - 2) : i + 3 - 1 = i + 2
    BY <1>1
  <2> HIDE DEF n
  <2>2. n = Len(s)
    BY DEF n
  <2> QED
    BY <1>1, <2>1, <2>2, RestIs
<1> HIDE DEF w, c
<1>6. /\ m \in Seq(Bytes) /\ Len(m) = n /\ m[1] = 0 /\ m[2] = 0 /\ m[3] = t
      /\ \A i \in 4..n : m[i] = w[i - 3]
  <2> HIDE DEF t, n
  <2> QED
    BY <1>1, <1>2, <1>4
<1> HIDE DEF m
<1>7. u \in Seq(Bytes) /\ Len(u) = n - 2 /\ \A i \in 1..(n - 2) : u[i] = m[i + 2]
  <2> HIDE DEF n
  <2>1. 3 <= n + 1 /\ n + 1 - 3 = n - 2 /\ \A i \in 1..(n - 2) : i + 3 - 1 = i + 2
    BY <1>1
  <2>2. n = Len(m)
    BY <1>6
  <2> QED
    BY <1>1, <1>6, <2>1, <2>2, RestIs
<1> HIDE DEF u
<1>8. c[1] = s[3]
  BY <1>1, <1>5
<1> HIDE DEF n
<1> DEFINE k == n - 2
<1>9. k \in Nat /\ k >= 1
  BY <1>1
<1>10. /\ Turned(c) \in Seq(Bytes) /\ Len(Turned(c)) = k /\ Turned(c)[1] = t
       /\ \A i \in 2..k : Turned(c)[i] = c[i]
  <2>1. k = Len(c)
    BY <1>5
  <2> HIDE DEF k
  <2> QED
    BY <1>5, <1>8, <1>9, <2>1, TurnedIs
<1>11. \A i \in 1..k : u[i] = Turned(c)[i]
  <2> HIDE DEF t, s
  <2> TAKE i \in 1..k
  <2>1. CASE i = 1
    <3>1. u[1] = m[3]
      BY <1>7, <1>9
    <3> QED
      BY <2>1, <3>1, <1>6, <1>10
  <2>2. CASE i # 1
    <3>1. i \in 2..k /\ i + 2 \in 4..n /\ i - 1 \in 1..(n - 3) /\ (i + 2) - 3 = i - 1
          /\ (i - 1) + 3 = i + 2
      BY <2>2, <1>1
    <3>2. u[i] = w[i - 1]
      BY <3>1, <1>6, <1>7
    <3>3. w[i - 1] = s[i + 2]
      BY <3>1, <1>4
    <3>4. Turned(c)[i] = s[i + 2]
      BY <3>1, <1>5, <1>10
    <3> QED
      BY <3>2, <3>3, <3>4
  <2> QED
    BY <2>1, <2>2
<1>12. u = Turned(c)
  <2> HIDE DEF k
  <2>1. Len(u) = k
    BY <1>7 DEF k
  <2> QED
    BY <2>1, <1>7, <1>9, <1>10, <1>11, Elementwise
<1>13. Total(m) = (BYTE * m[1] + m[2]) + Total(u)
  <2>1. Len(m) >= 2
    BY <1>1, <1>6
  <2> QED
    BY <1>6, <2>1, TotalFromThird DEF u
<1>14. Total(m) = Total(u)
  <2>1. Total(u) \in Nat
    BY <1>7, TotalTyped
  <2> QED
    BY <2>1, <1>6, <1>13, Width
<1>15. SubSeq(m, 3, Len(p.bytes)) = u
  BY DEF u, n, s
<1> QED
  BY <1>3, <1>6, <1>12, <1>14, <1>15 DEF n, s

AnewPacket == [Readdressed EXCEPT !.bytes = ComputedAnew(Readdressed)]

\* A checksum that is computed anew is right.
LEMMA AnewIs ==
    ASSUME WellFormed(datagram), datagram.proto = "icmp"
    PROVE  /\ WellFormed(AnewPacket)
           /\ AnewPacket.family = 10 - datagram.family /\ AnewPacket.proto = "icmp"
           /\ AnewPacket.source = Translated(datagram.source)
           /\ AnewPacket.destination = Translated(datagram.destination)
           /\ Len(AnewPacket.bytes) = Len(datagram.bytes)
           /\ Content(AnewPacket) = Turned(Content(datagram))
           /\ Ends(AnewPacket) = Ends(datagram)
           /\ IsRight(AnewPacket)
<1> DEFINE r == Readdressed
           h == PseudoHeader(r)
           m == Message(r)
           start == MessageStart(m)
           end == SubSeq(m, Len(start) + 1, Len(m))
           C == Calculated(start, end, h)
           t == WithChecksum(m, C)
           q == AnewPacket
<1>1. /\ WellFormed(r)
      /\ r.family = 10 - datagram.family /\ r.proto = "icmp"
      /\ r.source = Translated(datagram.source) /\ r.destination = Translated(datagram.destination)
      /\ r.bytes = datagram.bytes
      /\ Ends(r) = Ends(datagram)
  BY ReaddressedIs
<1>2. q = [r EXCEPT !.bytes = t]
  BY DEF AnewPacket, ComputedAnew, Message
<1> HIDE DEF r, q
<1>3. Content(r) = Content(datagram)
  BY <1>1 DEF Content
<1>4. r.bytes \in Seq(Bytes) /\ Len(r.bytes) \in Nat /\ Len(r.bytes) >= 3
  BY <1>1, PacketParts
<1>5. /\ m \in Seq(Bytes) /\ Len(m) = Len(r.bytes)
      /\ SubSeq(m, 3, Len(m)) = Turned(Content(datagram))
      /\ Total(m) = Total(Turned(Content(datagram)))
  BY <1>1, <1>3, MessageIs
<1> HIDE DEF m
<1>6. /\ start \in Seq(Bytes) /\ end \in Seq(Bytes)
      /\ Len(start) + Len(end) = Len(m) /\ Total(start) + Total(end) = Total(m)
  BY <1>4, <1>5, MessageParts
<1>7. h \in Seq(Bytes) /\ Len(h) <= 2 * (Len(Prefix) + 2) + 8 /\ Len(Prefix) \in Nat
  BY <1>1, PseudoHeaderIs, PrefixTyped
<1> HIDE DEF start, end, h
<1>8. Fits(Len(start) + Len(end) + Len(h) + 2)
  <2>1. Len(start) \in Nat /\ Len(end) \in Nat /\ Len(h) \in Nat
    BY <1>6, <1>7
  <2>2. /\ Len(start) + Len(end) + Len(h) + 2 \in Nat
        /\ Len(start) + Len(end) + Len(h) + 2 <= Len(r.bytes) + 2 * (Len(Prefix) + 2) + 10
    <3>1. ASSUME NEW x \in Nat, NEW y \in Nat, NEW z \in Nat, NEW n \in Nat, NEW k \in Nat,
                 x + y = n, z <= 2 * (k + 2) + 8
          PROVE  x + y + z + 2 \in Nat /\ x + y + z + 2 <= n + 2 * (k + 2) + 10
      BY <3>1
    <3>2. Len(start) + Len(end) = Len(r.bytes)
      BY <1>5, <1>6
    <3> QED
      BY <1>4, <1>7, <2>1, <3>1, <3>2
  <2> QED
    BY <1>1, <2>2, SizeFits
<1> DEFINE rest == Total(Turned(Content(datagram)))
           all == rest + Total(h)
<1>9. rest \in Nat /\ Total(h) \in Nat /\ all \in Nat /\ Total(start) \in Nat /\ Total(end) \in Nat
  BY <1>5, <1>6, <1>7, TotalTyped
<1>10. Total(start) + Total(end) + Total(h) = all
  BY <1>5, <1>6, <1>9
<1> HIDE DEF all, rest
<1>11. /\ C \in Nat /\ C <= Ones /\ Same(Turn * C, -all)
       /\ C = Ones <=> all = 0
  BY <1>6, <1>7, <1>8, <1>10, CalculatedIs
<1> HIDE DEF C
<1>12. /\ t \in Seq(Bytes) /\ Len(t) = Len(r.bytes)
       /\ SubSeq(t, 3, Len(t)) = Turned(Content(datagram))
       /\ t[1] \in Bytes /\ t[2] \in Bytes /\ HostWord(t[1], t[2]) = C
       /\ Same(Total(t), Turn * C + rest)
       /\ Total(t) = (BYTE * t[1] + t[2]) + rest
  <2>1. Len(m) >= 3
    BY <1>4, <1>5
  <2> QED
    BY <1>5, <1>11, <2>1, WithChecksumIs DEF rest
<1> HIDE DEF t
<1>13. /\ WellFormed(q)
       /\ q.family = r.family /\ q.proto = r.proto /\ q.bytes = t
       /\ q.source = r.source /\ q.destination = r.destination
       /\ PacketTotal(q) = Total(t) + Total(h)
       /\ Ends(q) = Ends(r)
  BY <1>1, <1>2, <1>12, WithBytes DEF h
<1>14. Content(q) = Turned(Content(datagram))
  BY <1>12, <1>13 DEF Content
<1>15. ~HasNoChecksum(q)
  BY <1>1, <1>13 DEF HasNoChecksum
<1>16. Same(PacketTotal(q), 0)
  <2>1. Turn * C \in Int /\ Total(t) \in Int /\ C \in Int
    <3>1. C \in Int
      BY <1>11
    <3> QED
      BY <3>1, <1>12, TurnOfInt, TotalTyped
  <2>2. PICK k1 \in Int : Turn * C = (-all) + k1 * Ones
    BY <1>11 DEF Same
  <2>3. PICK k2 \in Int : Total(t) = (Turn * C + rest) + k2 * Ones
    BY <1>12 DEF Same
  <2>4. k1 + k2 \in Int /\ k1 * Ones \in Int /\ k2 * Ones \in Int
        /\ (k1 + k2) * Ones = k1 * Ones + k2 * Ones
    BY OnesTyped
  <2>5. PacketTotal(q) = 0 + (k1 + k2) * Ones
    BY <1>9, <1>13, <2>1, <2>2, <2>3, <2>4 DEF all
  <2> QED
    BY <2>4, <2>5 DEF Same
<1>17. PacketTotal(q) > 0
  <2>1. t[1] \in Nat /\ t[2] \in Nat /\ BYTE \in Nat /\ BYTE >= 4
    BY <1>12, Width DEF Bytes
  <2>2. BYTE * t[1] \in Nat
    BY <2>1
  <2>3. PacketTotal(q) = BYTE * t[1] + t[2] + all
    BY <1>9, <1>12, <1>13, <2>1, <2>2 DEF all
  <2>4. CASE all > 0
    BY <1>9, <2>1, <2>2, <2>3, <2>4
  <2>5. CASE all = 0
    <3>1. C # 0
      BY <1>11, <2>5, OnesTyped
    <3>2. t[1] # 0 \/ t[2] # 0
      BY <1>12, <3>1, WordTurned
    <3>3. t[1] # 0 => BYTE * t[1] >= 1
      BY <2>1
    <3> QED
      BY <2>1, <2>2, <2>3, <2>5, <3>2, <3>3
  <2> QED
    BY <1>9, <2>4, <2>5
<1>18. IsRight(q)
  BY <1>13, <1>15, <1>16, <1>17, RightIs
<1> QED
  BY <1>1, <1>12, <1>13, <1>14, <1>18 DEF q

-----------------------------------------------------------------------------
(* The invariant.                                                           *)

\* A datagram that nobody damaged: only its family and the type of an echo
\* message have changed, and its checksum with them.
AsSent ==
    /\ datagram.source \in Hosts(datagram.family)
    /\ datagram.destination \in Hosts(datagram.family)
    /\ Content(datagram) = Expected
    /\ Ends(datagram) = Ends(sent)
    /\ IsRight(datagram) \/ (crossings = 0 /\ datagram = sent /\ HasNoChecksum(sent))

\* A damaged one: what was damaged does not matter, or the checksum tells.
DamageShows ==
    \/ Content(datagram) = Expected /\ (datagram.proto = "icmp" \/ Ends(datagram) = Ends(sent))
    \/ ~Accepts(datagram)
    \/ crossings = 0 /\ HasNoChecksum(sent) /\ HasNoChecksum(datagram)

\* What a datagram is once it has been sent.
Travelled ==
    /\ WellFormed(datagram) /\ WellFormed(sent)
    /\ Len(datagram.bytes) = Len(sent.bytes) /\ datagram.proto = sent.proto
    /\ ~damaged => AsSent
    /\ damaged => DamageShows

IntegrityInv ==
    /\ damaged \in BOOLEAN
    /\ crossings \in 0..MaxCrossings
    /\ fate \in {"none", "travels", "dropped", "arrived"}
    /\ fate = "none" =>
         datagram = NoPacket /\ sent = NoPacket /\ ~damaged /\ crossings = 0
    /\ fate # "none" => Travelled
    /\ OnlyBadIsDropped

LEMMA NothingCrossed == 0 \in 0..MaxCrossings
<1>1. MaxCrossings \in Nat
  BY IntegrityAssumption
<1> QED
  BY <1>1

LEMMA IntegrityStarts == IntegrityInit => IntegrityInv
BY NothingCrossed DEF IntegrityInit, IntegrityInv, OnlyBadIsDropped

LEMMA SentIsAsSent == ASSUME IntegrityInv, Send PROVE IntegrityInv'
<1>0. PICK family \in {4, 6}, proto \in Protocols, data \in Data, sum \in [1..2 -> Bytes] :
        \E source, destination \in Hosts(family) :
           datagram' = [family |-> family, proto |-> proto, source |-> source,
                        destination |-> destination, bytes |-> sum \o data]
  BY DEF Send
<1>1. PICK source \in Hosts(family), destination \in Hosts(family) :
        datagram' = [family |-> family, proto |-> proto, source |-> source,
                     destination |-> destination, bytes |-> sum \o data]
  BY <1>0
<1>2. /\ fate = "none" /\ fate' = "travels" /\ sent' = datagram' /\ Accepts(datagram')
      /\ damaged' = damaged /\ crossings' = crossings /\ ~damaged /\ crossings = 0
  BY DEF Send, IntegrityInv
<1> DEFINE p == datagram'
<1>3. /\ p.family = family /\ p.proto = proto /\ p.source = source
      /\ p.destination = destination /\ p.bytes = sum \o data
  BY <1>1
<1>4. data \in Seq(Bytes) /\ sum \in Seq(Bytes) /\ Len(sum) = 2 /\ Len(data) \in Nat
  <2>1. data \in Seq(Bytes)
    BY IntegrityAssumption
  <2> QED
    BY <2>1, PairIsSeq
<1>5. sum \o data \in Seq(Bytes) /\ Len(sum \o data) = Len(data) + 2
  <2>1. sum \o data \in Seq(Bytes) /\ Len(sum \o data) = Len(sum) + Len(data)
    BY <1>4, Parts
  <2> QED
    BY <1>4, <2>1
<1>6. /\ source \in Seq(Bytes) /\ destination \in Seq(Bytes)
      /\ Len(source) = AddressSize(family) /\ Len(destination) = AddressSize(family)
  BY HostIs
<1>7. p \in Packet
  BY <1>1, <1>5, <1>6 DEF Packet
<1> HIDE DEF p
<1>8. WellFormed(p)
  BY <1>3, <1>5, <1>6, <1>7 DEF WellFormed
<1>9. IsRight(p) \/ HasNoChecksum(p)
  BY <1>2 DEF Accepts, p
<1>10. Expected' = Content(p)
  BY <1>2, IntegrityAssumption DEF Expected, p
<1>11. AsSent'
  BY <1>2, <1>3, <1>9, <1>10 DEF AsSent, p
<1>12. Travelled'
  BY <1>2, <1>8, <1>11 DEF Travelled, p
<1> QED
  BY <1>2, <1>12 DEF IntegrityInv, OnlyBadIsDropped

LEMMA ForgottenIsNone == ASSUME IntegrityInv, Forget PROVE IntegrityInv'
BY NothingCrossed DEF IntegrityInv, Forget, OnlyBadIsDropped

LEMMA ArrivedAsItTravelled == ASSUME IntegrityInv, Arrive PROVE IntegrityInv'
<1>1. /\ fate = "travels" /\ fate' = "arrived" /\ UNCHANGED <<datagram, sent, damaged, crossings>>
      /\ Travelled
  BY DEF Arrive, IntegrityInv
<1>2. Travelled'
  BY <1>1 DEF Travelled, AsSent, DamageShows, Expected
<1> QED
  BY <1>1, <1>2 DEF IntegrityInv, OnlyBadIsDropped

-----------------------------------------------------------------------------
(* Damage.                                                                  *)

\* A packet with another address.
LEMMA OtherAddress ==
    ASSUME NEW p, WellFormed(p), NEW i, NEW b \in Bytes, NEW q,
           \/ i \in 1..Len(p.source) /\ p.source[i] # b /\ q = [p EXCEPT !.source = [@ EXCEPT ![i] = b]]
           \/ i \in 1..Len(p.destination) /\ p.destination[i] # b
              /\ q = [p EXCEPT !.destination = [@ EXCEPT ![i] = b]]
    PROVE  /\ WellFormed(q)
           /\ q.family = p.family /\ q.proto = p.proto /\ q.bytes = p.bytes
           /\ p.proto # "icmp" => ~Same(PacketTotal(q) - PacketTotal(p), 0)
<1>0. /\ p \in Packet /\ \E d \in Data : Len(p.bytes) = Len(d) + 2
      /\ Len(p.source) = AddressSize(p.family) /\ Len(p.destination) = AddressSize(p.family)
      /\ p.source \in Seq(Bytes) /\ p.destination \in Seq(Bytes)
  BY PacketParts DEF WellFormed
<1> DEFINE s == [p.source EXCEPT ![i] = b]
           t == [p.destination EXCEPT ![i] = b]
<1>1. /\ WellFormed(q)
      /\ q.family = p.family /\ q.proto = p.proto /\ q.bytes = p.bytes
      /\ \/ /\ i \in 1..Len(p.source) /\ p.source[i] # b
            /\ q.source = s /\ q.destination = p.destination
         \/ /\ i \in 1..Len(p.destination) /\ p.destination[i] # b
            /\ q.source = p.source /\ q.destination = t
  <2>1. CASE /\ i \in 1..Len(p.source) /\ p.source[i] # b
             /\ q = [p EXCEPT !.source = [@ EXCEPT ![i] = b]]
    <3>1. s \in Seq(Bytes) /\ Len(s) = Len(p.source)
      BY <1>0
    <3> HIDE DEF s
    <3>2. q = [p EXCEPT !.source = s]
      BY <2>1 DEF s
    <3>3. /\ q.family = p.family /\ q.proto = p.proto /\ q.bytes = p.bytes
          /\ q.source = s /\ q.destination = p.destination /\ q \in Packet
      BY <1>0, <3>1, <3>2 DEF Packet
    <3> QED
      BY <1>0, <2>1, <3>1, <3>3 DEF WellFormed
  <2>2. CASE /\ i \in 1..Len(p.destination) /\ p.destination[i] # b
             /\ q = [p EXCEPT !.destination = [@ EXCEPT ![i] = b]]
    <3>1. t \in Seq(Bytes) /\ Len(t) = Len(p.destination)
      BY <1>0
    <3> HIDE DEF t
    <3>2. q = [p EXCEPT !.destination = t]
      BY <2>2 DEF t
    <3>3. /\ q.family = p.family /\ q.proto = p.proto /\ q.bytes = p.bytes
          /\ q.source = p.source /\ q.destination = t /\ q \in Packet
      BY <1>0, <3>1, <3>2 DEF Packet
    <3> QED
      BY <1>0, <2>2, <3>1, <3>3 DEF WellFormed
  <2> QED
    BY <2>1, <2>2
<1>2. ASSUME p.proto # "icmp" PROVE ~Same(PacketTotal(q) - PacketTotal(p), 0)
  <2>1. PICK f \in {s, t}, a \in {p.source, p.destination} :
          /\ ~Same(Total(f) - Total(a), 0)
          /\ Total(f) \in Int /\ Total(a) \in Int
          /\ Total(q.source) + Total(q.destination) - (Total(p.source) + Total(p.destination))
               = Total(f) - Total(a)
    <3>1. Total(p.source) \in Nat /\ Total(p.destination) \in Nat
      BY <1>0, TotalTyped
    <3>2. CASE /\ i \in 1..Len(p.source) /\ p.source[i] # b
               /\ q.source = s /\ q.destination = p.destination
      <4>1. s \in Seq(Bytes)
        BY <1>0, <3>2
      <4>2. Total(s) \in Nat
        BY <4>1, TotalTyped
      <4>3. ~Same(Total(s) - Total(p.source), 0)
        BY <1>0, <3>2, ChangeShows
      <4> HIDE DEF s
      <4>4. Total(q.source) + Total(q.destination) - (Total(p.source) + Total(p.destination))
               = Total(s) - Total(p.source)
        BY <3>1, <3>2, <4>2
      <4> QED
        BY <3>1, <4>2, <4>3, <4>4
    <3>3. CASE /\ i \in 1..Len(p.destination) /\ p.destination[i] # b
               /\ q.source = p.source /\ q.destination = t
      <4>1. t \in Seq(Bytes)
        BY <1>0, <3>3
      <4>2. Total(t) \in Nat
        BY <4>1, TotalTyped
      <4>3. ~Same(Total(t) - Total(p.destination), 0)
        BY <1>0, <3>3, ChangeShows
      <4> HIDE DEF t
      <4>4. Total(q.source) + Total(q.destination) - (Total(p.source) + Total(p.destination))
               = Total(t) - Total(p.destination)
        BY <3>1, <3>3, <4>2
      <4> QED
        BY <3>1, <4>2, <4>3, <4>4
    <3> QED
      BY <1>1, <3>2, <3>3
  <2> DEFINE n == Len(p.bytes)
             k == ProtocolNumber(p)
  <2>2. ProtocolNumber(q) = k /\ k \in Nat /\ n \in Nat
    <3>1. ProtocolNumber(q) = k
      BY <1>1 DEF ProtocolNumber
    <3> QED
      BY <3>1, ProtocolNumberIs, PacketParts
  <2>3. /\ Total(PseudoHeader(p)) = Total(p.source) + Total(p.destination) + n + k
        /\ Total(PseudoHeader(q)) = Total(q.source) + Total(q.destination) + n + k
    <3>1. ~(p.family = 4 /\ p.proto = "icmp") /\ ~(q.family = 4 /\ q.proto = "icmp")
      BY <1>1, <1>2
    <3>2. /\ Total(PseudoHeader(p)) =
               Total(p.source) + Total(p.destination) + Len(p.bytes) + ProtocolNumber(p)
          /\ Total(PseudoHeader(q)) =
               Total(q.source) + Total(q.destination) + Len(q.bytes) + ProtocolNumber(q)
      BY <1>1, <3>1, PseudoHeaderIs
    <3> QED
      BY <3>2, <2>2, <1>1
  <2> HIDE DEF n, k
  <2>4. /\ Total(p.source) \in Nat /\ Total(p.destination) \in Nat
        /\ Total(q.source) \in Nat /\ Total(q.destination) \in Nat
        /\ Total(p.bytes) \in Nat
    <3>1. /\ q.source \in Seq(Bytes) /\ q.destination \in Seq(Bytes) /\ p.bytes \in Seq(Bytes)
      BY <1>1, PacketParts
    <3> QED
      BY <1>0, <3>1, TotalTyped
  <2>5. PacketTotal(q) - PacketTotal(p) = Total(f) - Total(a)
    <3>1. /\ PacketTotal(p) = Total(p.bytes) + (Total(p.source) + Total(p.destination) + n + k)
          /\ PacketTotal(q) = Total(p.bytes) + (Total(q.source) + Total(q.destination) + n + k)
      BY <1>1, <2>3 DEF PacketTotal
    <3> QED
      BY <2>1, <2>2, <2>4, <3>1
  <2> QED
    BY <2>1, <2>5
<1> QED
  BY <1>1, <1>2

LEMMA ByteChanged ==
    ASSUME NEW s \in Seq(Bytes), NEW i \in 1..Len(s), NEW b \in Bytes
    PROVE  LET t == [s EXCEPT ![i] = b]
           IN  /\ t \in Seq(Bytes) /\ Len(t) = Len(s)
               /\ \A j \in 1..Len(s) : j # i => t[j] = s[j]
  OBVIOUS

\* A packet with another byte.
LEMMA OtherByte ==
    ASSUME NEW p, WellFormed(p), NEW i \in 1..Len(p.bytes), NEW b \in Bytes, p.bytes[i] # b
    PROVE  LET q == [p EXCEPT !.bytes = [@ EXCEPT ![i] = b]]
           IN  /\ WellFormed(q)
               /\ q.family = p.family /\ q.proto = p.proto
               /\ Len(q.bytes) = Len(p.bytes)
               /\ Ends(q) = Ends(p)
               /\ ~Same(PacketTotal(q) - PacketTotal(p), 0)
               /\ i <= 2 => Content(q) = Content(p)
               /\ i > 2 => q.bytes[1] = p.bytes[1] /\ q.bytes[2] = p.bytes[2]
<1> DEFINE s == p.bytes
           t == [s EXCEPT ![i] = b]
           q == [p EXCEPT !.bytes = t]
<1>1. s \in Seq(Bytes) /\ Len(s) \in Nat /\ Len(s) >= 3
  BY PacketParts
<1>2. ~Same(Total(t) - Total(s), 0)
  BY <1>1, ChangeShows
<1>3. /\ t \in Seq(Bytes) /\ Len(t) = Len(s)
      /\ \A j \in 1..Len(s) : j # i => t[j] = s[j]
  BY <1>1, ByteChanged
<1> HIDE DEF s
<1>4. i <= 2 => SubSeq(t, 3, Len(t)) = SubSeq(s, 3, Len(s))
  <2> SUFFICES ASSUME i <= 2 PROVE SubSeq(t, 3, Len(t)) = SubSeq(s, 3, Len(s))
    OBVIOUS
  <2> DEFINE n == Len(s)
             u == SubSeq(t, 3, n)
             v == SubSeq(s, 3, n)
             k == n + 1 - 3
  <2> HIDE DEF t, n
  <2>1. n \in Nat /\ n >= 3 /\ n = Len(s) /\ n = Len(t) /\ k \in Nat /\ 3 <= n + 1
    BY <1>1, <1>3 DEF n
  <2>2. u \in Seq(Bytes) /\ Len(u) = k /\ \A j \in 1..k : u[j] = t[j + 3 - 1]
    BY <1>3, <2>1, RestIs
  <2>3. v \in Seq(Bytes) /\ Len(v) = k /\ \A j \in 1..k : v[j] = s[j + 3 - 1]
    <3>1. s \in Seq(Bytes) /\ n = Len(s) /\ n \in Nat /\ 3 \in Nat /\ 3 >= 1 /\ 3 <= n + 1
      BY <1>1, <2>1
    <3> QED
      BY <3>1, RestIs, Zenon
  <2>4. \A j \in 1..k : j + 3 - 1 \in 1..Len(s) /\ j + 3 - 1 # i
    BY <2>1, <1>1
  <2> HIDE DEF u, v, k
  <2>5. u = v
    <3>1. \A j \in 1..k : t[j + 3 - 1] = s[j + 3 - 1]
      BY <1>3, <2>4
    <3>2. \A j \in 1..k : u[j] = v[j]
      BY <2>2, <2>3, <3>1
    <3> QED
      BY <2>1, <2>2, <2>3, <3>2, Elementwise
  <2> QED
    BY <2>1, <2>5 DEF u, v
<1>5. i > 2 => t[1] = s[1] /\ t[2] = s[2]
  BY <1>1, <1>3
<1>6. q = [p EXCEPT !.bytes = [@ EXCEPT ![i] = b]]
  BY DEF s
<1> HIDE DEF t, q
<1>7. /\ WellFormed(q)
      /\ q.family = p.family /\ q.proto = p.proto /\ q.bytes = t
      /\ PacketTotal(q) = Total(t) + Total(PseudoHeader(p))
      /\ Ends(q) = Ends(p)
  BY <1>3, WithBytes DEF q, s
<1>8. PacketTotal(q) - PacketTotal(p) = Total(t) - Total(s)
  <2>1. Total(t) \in Nat /\ Total(s) \in Nat /\ Total(PseudoHeader(p)) \in Nat
    BY <1>1, <1>3, PseudoHeaderIs, TotalTyped
  <2>2. PacketTotal(p) = Total(s) + Total(PseudoHeader(p))
    BY DEF PacketTotal, s
  <2> QED
    BY <1>7, <2>1, <2>2
<1>9. i <= 2 => Content(q) = Content(p)
  BY <1>4, <1>7 DEF Content, s
<1> QED
  BY <1>2, <1>3, <1>5, <1>6, <1>7, <1>8, <1>9 DEF s

LEMMA ProtocolsAre ==
    ASSUME NEW p, WellFormed(p)
    PROVE  /\ IsRight(p) => ~HasNoChecksum(p)
           /\ HasNoChecksum(p) => p.proto = "udp"
           /\ Accepts(p) <=> IsRight(p) \/ (p.family = 4 /\ HasNoChecksum(p))
BY RightIs DEF HasNoChecksum, Accepts

\* Damage that matters spoils a right checksum, and leaves no checksum where
\* there was none.
LEMMA DamagedShows == ASSUME IntegrityInv, Damage PROVE IntegrityInv'
<1>1. /\ fate = "travels" /\ ~damaged /\ damaged' = TRUE
      /\ sent' = sent /\ crossings' = crossings /\ fate' = fate
      /\ Travelled /\ AsSent
  BY DEF Damage, IntegrityInv, Travelled
<1>2. PICK field \in {"source", "destination", "bytes"}, b \in Bytes :
        \E i \in 1..Len(datagram[field]) :
           datagram[field][i] # b /\ datagram' = [datagram EXCEPT ![field][i] = b]
  BY DEF Damage
<1>3. PICK i \in 1..Len(datagram[field]) :
        datagram[field][i] # b /\ datagram' = [datagram EXCEPT ![field][i] = b]
  BY <1>2
<1>4. WellFormed(datagram) /\ WellFormed(sent)
      /\ Len(datagram.bytes) = Len(sent.bytes) /\ datagram.proto = sent.proto
  BY <1>1 DEF Travelled
<1>5. /\ Content(datagram) = Expected /\ Ends(datagram) = Ends(sent)
      /\ IsRight(datagram) \/ (crossings = 0 /\ datagram = sent /\ HasNoChecksum(sent))
  BY <1>1 DEF AsSent
<1> DEFINE q == datagram'
<1>6. /\ WellFormed(q)
      /\ Len(q.bytes) = Len(datagram.bytes) /\ q.proto = datagram.proto
      /\ \/ /\ Content(q) = Expected
            /\ q.proto = "icmp" \/ Ends(q) = Ends(sent)
         \/ /\ ~Same(PacketTotal(q) - PacketTotal(datagram), 0)
            /\ HasNoChecksum(q) <=> HasNoChecksum(datagram)
  <2>1. CASE field # "bytes"
    <3>1. \/ i \in 1..Len(datagram.source) /\ datagram.source[i] # b
             /\ q = [datagram EXCEPT !.source = [@ EXCEPT ![i] = b]]
          \/ i \in 1..Len(datagram.destination) /\ datagram.destination[i] # b
             /\ q = [datagram EXCEPT !.destination = [@ EXCEPT ![i] = b]]
      <4>1. CASE field = "source"
        BY <1>3, <4>1
      <4>2. CASE field = "destination"
        BY <1>3, <4>2
      <4> QED
        BY <2>1, <4>1, <4>2
    <3> HIDE DEF q
    <3>2. /\ WellFormed(q) /\ q.proto = datagram.proto /\ q.bytes = datagram.bytes
          /\ datagram.proto # "icmp" => ~Same(PacketTotal(q) - PacketTotal(datagram), 0)
      BY <1>4, <3>1, OtherAddress
    <3>3. /\ Content(q) = Content(datagram)
          /\ HasNoChecksum(q) <=> HasNoChecksum(datagram)
      BY <3>2 DEF Content, HasNoChecksum
    <3> QED
      BY <1>5, <3>2, <3>3
  <2>2. CASE field = "bytes"
    <3>1. /\ i \in 1..Len(datagram.bytes) /\ datagram.bytes[i] # b
          /\ q = [datagram EXCEPT !.bytes = [@ EXCEPT ![i] = b]]
      BY <1>3, <2>2
    <3> HIDE DEF q
    <3>2. /\ WellFormed(q) /\ q.proto = datagram.proto
          /\ Len(q.bytes) = Len(datagram.bytes)
          /\ Ends(q) = Ends(datagram)
          /\ ~Same(PacketTotal(q) - PacketTotal(datagram), 0)
          /\ i <= 2 => Content(q) = Content(datagram)
          /\ i > 2 => q.bytes[1] = datagram.bytes[1] /\ q.bytes[2] = datagram.bytes[2]
      BY <1>4, <3>1, OtherByte
    <3>3. i > 2 => (HasNoChecksum(q) <=> HasNoChecksum(datagram))
      BY <3>2 DEF HasNoChecksum
    <3>4. i <= 2 \/ i > 2
      BY <3>1, <1>4, PacketParts
    <3> QED
      BY <1>5, <3>2, <3>3, <3>4
  <2> QED
    BY <2>1, <2>2
<1> HIDE DEF q
<1>7. \/ Content(q) = Expected /\ (q.proto = "icmp" \/ Ends(q) = Ends(sent))
      \/ ~Accepts(q)
      \/ crossings = 0 /\ HasNoChecksum(sent) /\ HasNoChecksum(q)
  <2> SUFFICES ASSUME ~Same(PacketTotal(q) - PacketTotal(datagram), 0),
                      HasNoChecksum(q) <=> HasNoChecksum(datagram)
               PROVE  ~Accepts(q) \/ (crossings = 0 /\ HasNoChecksum(sent) /\ HasNoChecksum(q))
    BY <1>6
  <2>1. CASE IsRight(datagram)
    <3>1. ~IsRight(q)
      BY <1>4, <1>6, <2>1, NotBothRight
    <3>2. ~HasNoChecksum(q)
      BY <1>4, <2>1, ProtocolsAre
    <3> QED
      BY <1>6, <3>1, <3>2, ProtocolsAre
  <2>2. CASE crossings = 0 /\ datagram = sent /\ HasNoChecksum(sent)
    BY <2>2
  <2> QED
    BY <1>5, <2>1, <2>2
<1>8. Expected' = Expected
  BY <1>1 DEF Expected
<1>9. DamageShows'
  BY <1>1, <1>7, <1>8 DEF DamageShows, q
<1>10. Travelled'
  BY <1>1, <1>4, <1>6, <1>9 DEF Travelled, q
<1> QED
  BY <1>1, <1>10 DEF IntegrityInv, OnlyBadIsDropped

-----------------------------------------------------------------------------
(* The way of a datagram.                                                   *)

\* Only what was damaged or sent without a checksum is dropped.
LEMMA DroppedIsBad == ASSUME IntegrityInv, Drop PROVE IntegrityInv'
<1>1. /\ fate = "travels" /\ IsDropped /\ fate' = "dropped"
      /\ UNCHANGED <<datagram, sent, damaged, crossings>>
      /\ Travelled
  BY DEF Drop, IntegrityInv
<1>2. Travelled'
  BY <1>1 DEF Travelled, AsSent, DamageShows, Expected
<1>3. ASSUME ~damaged, ~HasNoChecksum(sent) PROVE FALSE
  <2>1. /\ WellFormed(datagram) /\ IsRight(datagram) /\ datagram.family \in {4, 6}
        /\ datagram.source \in Hosts(datagram.family)
        /\ datagram.destination \in Hosts(datagram.family)
    <3>1. WellFormed(datagram) /\ AsSent
      BY <1>1, <1>3 DEF Travelled
    <3>2. datagram.family \in {4, 6}
      BY <3>1, PacketParts
    <3> QED
      BY <1>3, <3>1, <3>2 DEF AsSent
  <2>2. ~(datagram.family = 6 /\ ~(HasPrefix(datagram.source) /\ HasPrefix(datagram.destination)))
    BY <2>1, HostIs
  <2>3. ~(datagram.proto = "udp" /\ Checksum(datagram) = 0)
    BY <2>1, ChecksumIs, ProtocolsAre
  <2>4. ~(datagram.proto = "icmp" /\ ~IcmpIsRight)
    BY <2>1, IcmpVerified DEF IcmpIsRight
  <2> QED
    BY <1>1, <2>2, <2>3, <2>4 DEF IsDropped
<1>4. OnlyBadIsDropped'
  BY <1>1, <1>3 DEF OnlyBadIsDropped
<1> QED
  BY <1>1, <1>2, <1>4 DEF IntegrityInv

\* One more crossing turns the type of an ICMP message once more.
LEMMA ExpectedNext ==
    ASSUME WellFormed(sent), crossings \in Nat, crossings' = crossings + 1, sent' = sent
    PROVE  /\ sent.proto # "icmp" => Expected' = Expected
           /\ sent.proto = "icmp" => Expected' = Turned(Expected)
<1>1. ASSUME sent.proto # "icmp" PROVE Expected' = Expected
  BY <1>1 DEF Expected
<1>2. ASSUME sent.proto = "icmp" PROVE Expected' = Turned(Expected)
  <2> DEFINE c == Content(sent)
  <2>1. c \in Seq(Bytes) /\ Len(c) >= 1
    <3>1. sent.bytes \in Seq(Bytes) /\ Len(sent.bytes) \in Nat /\ Len(sent.bytes) >= 3
      BY PacketParts
    <3> DEFINE n == Len(sent.bytes)
    <3>2. 3 <= n + 1 /\ n + 1 - 3 >= 1
      BY <3>1
    <3> QED
      BY <3>1, <3>2, RestIs DEF Content
  <2>2. Turned(Turned(c)) = c
    BY <2>1, TurnedBack
  <2>3. CASE crossings % 2 = 1
    <3>1. (crossings + 1) % 2 # 1
      BY <2>3
    <3> QED
      BY <1>2, <2>2, <2>3, <3>1 DEF Expected, Turned
  <2>4. CASE crossings % 2 # 1
    <3>1. (crossings + 1) % 2 = 1
      BY <2>4
    <3> QED
      BY <1>2, <2>4, <3>1 DEF Expected, Turned
  <2> QED
    BY <2>3, <2>4
<1> QED
  BY <1>1, <1>2

\* A translator keeps what is right, and does not make right what is not.
LEMMA CrossedAsBefore == ASSUME IntegrityInv, Cross PROVE IntegrityInv'
<1>1. /\ fate = "travels" /\ fate' = fate /\ crossings < MaxCrossings /\ ~IsDropped
      /\ crossings' = crossings + 1 /\ sent' = sent /\ damaged' = damaged
      /\ crossings \in 0..MaxCrossings
      /\ Travelled
  BY DEF Cross, IntegrityInv
<1>2. /\ WellFormed(datagram) /\ WellFormed(sent)
      /\ Len(datagram.bytes) = Len(sent.bytes) /\ datagram.proto = sent.proto
      /\ ~damaged => AsSent
      /\ damaged => DamageShows
  BY <1>1 DEF Travelled
<1>3. crossings \in Nat /\ crossings' \in 0..MaxCrossings /\ crossings' # 0
  <2>1. MaxCrossings \in Nat
    BY IntegrityAssumption
  <2> QED
    BY <1>1, <2>1
<1>4. ~HasNoChecksum(datagram)
  <2>1. ~(datagram.proto = "udp" /\ Checksum(datagram) = 0)
    BY <1>1 DEF IsDropped
  <2> QED
    BY <1>2, <2>1, ChecksumIs
<1> DEFINE q == datagram'
<1>5. /\ WellFormed(q)
      /\ q.family = 10 - datagram.family /\ q.proto = datagram.proto
      /\ q.source = Translated(datagram.source) /\ q.destination = Translated(datagram.destination)
      /\ Len(q.bytes) = Len(datagram.bytes)
      /\ Ends(q) = Ends(datagram)
      /\ ~HasNoChecksum(q)
      /\ IsRight(q) <=> IsRight(datagram)
      /\ Content(datagram) = Expected => Content(q) = Expected'
      /\ datagram.proto = "icmp" => IsRight(datagram)
  <2>1. CASE datagram.proto = "icmp"
    <3>1. q = AnewPacket
      BY <2>1 DEF Cross, AnewPacket
    <3> HIDE DEF q
    <3>2. /\ WellFormed(q)
          /\ q.family = 10 - datagram.family /\ q.proto = datagram.proto
          /\ q.source = Translated(datagram.source)
          /\ q.destination = Translated(datagram.destination)
          /\ Len(q.bytes) = Len(datagram.bytes)
          /\ Content(q) = Turned(Content(datagram))
          /\ Ends(q) = Ends(datagram)
          /\ IsRight(q)
      BY <1>2, <2>1, <3>1, AnewIs
    <3>3. IsRight(datagram)
      BY <1>1, <1>2, <2>1, IcmpVerified DEF IsDropped, IcmpIsRight
    <3>4. Expected' = Turned(Expected)
      BY <1>1, <1>2, <1>3, <2>1, ExpectedNext
    <3> QED
      BY <3>2, <3>3, <3>4, <2>1, ProtocolsAre
  <2>2. CASE datagram.proto # "icmp"
    <3>1. q = AdaptedPacket
      BY <2>2 DEF Cross, AdaptedPacket
    <3> HIDE DEF q
    <3>2. /\ WellFormed(q)
          /\ q.family = 10 - datagram.family /\ q.proto = datagram.proto
          /\ q.source = Translated(datagram.source)
          /\ q.destination = Translated(datagram.destination)
          /\ Len(q.bytes) = Len(datagram.bytes)
          /\ Content(q) = Content(datagram)
          /\ Ends(q) = Ends(datagram)
          /\ ~HasNoChecksum(q)
          /\ Same(PacketTotal(q), PacketTotal(datagram))
      BY <1>2, <2>2, <3>1, AdaptedIs
    <3>3. /\ PacketTotal(q) \in Int /\ PacketTotal(datagram) \in Int /\ 0 \in Int
          /\ PacketTotal(q) > 0 /\ PacketTotal(datagram) > 0
      BY <1>2, <2>2, <3>2, PacketTotalTyped
    <3>4. Same(PacketTotal(q), 0) <=> Same(PacketTotal(datagram), 0)
      BY <3>2, <3>3, SameTurned, SameChained, Zenon
    <3>5. IsRight(q) <=> IsRight(datagram)
      BY <1>2, <1>4, <3>2, <3>3, <3>4, RightIs
    <3>6. Expected' = Expected
      BY <1>1, <1>2, <1>3, <2>2, ExpectedNext
    <3> QED
      BY <2>2, <3>2, <3>5, <3>6
  <2> QED
    BY <2>1, <2>2
<1> HIDE DEF q
<1>6. ASSUME ~damaged PROVE AsSent'
  <2>1. /\ datagram.source \in Hosts(datagram.family)
        /\ datagram.destination \in Hosts(datagram.family)
        /\ Content(datagram) = Expected
        /\ Ends(datagram) = Ends(sent)
        /\ IsRight(datagram)
    BY <1>2, <1>4, <1>6 DEF AsSent
  <2>2. q.source \in Hosts(q.family) /\ q.destination \in Hosts(q.family)
    <3>1. /\ datagram.family \in {4, 6}
          /\ datagram.source \in Seq(Bytes) /\ datagram.destination \in Seq(Bytes)
          /\ Len(datagram.source) = AddressSize(datagram.family)
          /\ Len(datagram.destination) = AddressSize(datagram.family)
      BY <1>2, PacketParts
    <3> QED
      BY <1>5, <2>1, <3>1, TranslatedIs
  <2> QED
    BY <1>1, <1>5, <2>1, <2>2 DEF AsSent, q
<1>7. ASSUME damaged PROVE DamageShows'
  <2>1. CASE Content(datagram) = Expected
             /\ (datagram.proto = "icmp" \/ Ends(datagram) = Ends(sent))
    BY <1>1, <1>5, <2>1 DEF DamageShows, q
  <2>2. CASE ~Accepts(datagram)
    <3>1. ~IsRight(datagram)
      BY <1>2, <2>2, ProtocolsAre
    <3>2. ~Accepts(q)
      BY <1>5, <3>1, ProtocolsAre
    <3> QED
      BY <3>2 DEF DamageShows, q
  <2> QED
    BY <1>2, <1>4, <1>7, <2>1, <2>2 DEF DamageShows
<1>8. Travelled'
  BY <1>1, <1>2, <1>5, <1>6, <1>7 DEF Travelled, q
<1> QED
  BY <1>1, <1>3, <1>8 DEF IntegrityInv, OnlyBadIsDropped

\* The invariant, which every theorem on the way of datagrams rests on: a
\* datagram that is intact is as it was sent, with a right checksum; one that is
\* damaged where it matters is not acceptable, to no translator's merit or fault.
THEOREM IntegrityInvariant == IntegritySpec => []IntegrityInv
<1>1. IntegrityInv /\ [IntegrityNext]_integrityVars => IntegrityInv'
  <2> SUFFICES ASSUME IntegrityInv, [IntegrityNext]_integrityVars PROVE IntegrityInv'
    OBVIOUS
  <2>1. CASE Send
    BY <2>1, SentIsAsSent
  <2>2. CASE Damage
    BY <2>2, DamagedShows
  <2>3. CASE Cross
    BY <2>3, CrossedAsBefore
  <2>4. CASE Drop
    BY <2>4, DroppedIsBad
  <2>5. CASE Arrive
    BY <2>5, ArrivedAsItTravelled
  <2>6. CASE Forget
    BY <2>6, ForgottenIsNone
  <2>7. CASE UNCHANGED integrityVars
    BY <2>7 DEF integrityVars, IntegrityInv, Travelled, AsSent, DamageShows, Expected,
                OnlyBadIsDropped
  <2> QED
    BY <2>1, <2>2, <2>3, <2>4, <2>5, <2>6, <2>7 DEF IntegrityNext
<1> QED
  BY <1>1, IntegrityStarts, PTL DEF IntegritySpec

\* Every variable keeps its type, and no translator changes a datagram's size.
THEOREM IntegrityTyped == IntegritySpec => []IntegrityTypeOK
<1>1. IntegrityInv => IntegrityTypeOK
  <2> SUFFICES ASSUME IntegrityInv PROVE IntegrityTypeOK
    OBVIOUS
  <2>1. CASE fate = "none"
    <3>1. NoPacket \in Packet
      BY DEF NoPacket, Packet, Protocols
    <3> QED
      BY <2>1, <3>1 DEF IntegrityInv, IntegrityTypeOK
  <2>2. CASE fate # "none"
    BY <2>2 DEF IntegrityInv, IntegrityTypeOK, Travelled, WellFormed
  <2> QED
    BY <2>1, <2>2
<1> QED
  BY <1>1, IntegrityInvariant, PTL

\* A datagram that was not damaged has a right checksum behind any number of
\* translators, for bytes of any width, in either byte order.
THEOREM IntactAlwaysRight == IntegritySpec => []IntactStaysRight
<1>1. IntegrityInv => IntactStaysRight
  BY DEF IntegrityInv, IntactStaysRight, Travelled, AsSent
<1> QED
  BY <1>1, IntegrityInvariant, PTL

\* No host accepts damage that matters, wherever it happened on the way.
THEOREM DamageAlwaysSeen == IntegritySpec => []DamageIsSeen
<1>1. IntegrityInv => DamageIsSeen
  BY DEF IntegrityInv, DamageIsSeen, Travelled, DamageShows
<1> QED
  BY <1>1, IntegrityInvariant, PTL

\* No translator drops a good message.
THEOREM OnlyBadDropped == IntegritySpec => []OnlyBadIsDropped
<1>1. IntegrityInv => OnlyBadIsDropped
  BY DEF IntegrityInv
<1> QED
  BY <1>1, IntegrityInvariant, PTL
=============================================================================
