----------------------------- MODULE SendIPv4Proofs -----------------------------
(****************************************************************************)
(* For every MTU the configuration accepts and every IPv6 packet: the       *)
(* fragments reassemble to the translated payload, fragmentation is given   *)
(* up only beyond the end of a datagram, and the MTU reported to a source   *)
(* works.                                                                   *)
(****************************************************************************)
EXTENDS SendIPv4, TLAPS

USE DEF MIN_MTU_IPV4, MIN_MTU_IPV6, MAX_MTU, LAST_OFFSET, FRAGMENTABLE

\* The largest fragment payload is a positive multiple of 8 bytes that leaves
\* room for the header.
LEMMA MaxFragmentPayloadFits ==
  ASSUME NEW m \in Nat, m >= MIN_MTU_IPV4
  PROVE  /\ MaxFragmentPayload(m) \in Nat
         /\ MaxFragmentPayload(m) > 0
         /\ MaxFragmentPayload(m) % 8 = 0
         /\ 20 + MaxFragmentPayload(m) <= m
  BY DEF MaxFragmentPayload

\* The first part of the translated payload of a packet that is sent is a part
\* of it, of a multiple of 8 bytes.
LEMMA FirstPartAligned ==
  ASSUME NEW p \in IPv6Packet, ~Unsendable(p)
  PROVE  /\ SentSize(p) \in Nat
         /\ FirstPartSize(p) \in {0, 8, 24, 32}
         /\ FirstPartSize(p) <= SentSize(p)
         /\ FirstPartSize(p) % 8 = 0
<1>1. PayloadSize(p) \in Nat
  BY DEF PayloadSize, IPv6Packet
<1>2. p.proto = "error" => Quoted(p) \in Nat
  BY <1>1 DEF Unsendable, Quoted, IPv6Packet
<1>3. SentSize(p) \in Nat
  BY <1>1, <1>2 DEF SentSize, ErrorMessageSize
<1>4. FirstPartSize(p) \in {0, 8, 24, 32} /\ FirstPartSize(p) <= SentSize(p)
  BY <1>1, <1>2 DEF FirstPartSize, SentSize, ErrorMessageSize
<1>5. FirstPartSize(p) % 8 = 0
  BY <1>4
<1>6. QED
  BY <1>3, <1>4, <1>5, Zenon

\* The values of the configuration.
LEMMA ConfigBounds ==
  ASSUME TypeOK
  PROVE  /\ mtu4 \in Nat /\ MIN_MTU_IPV4 <= mtu4 /\ mtu4 <= MAX_MTU
         /\ mtu6 \in Nat /\ MIN_MTU_IPV6 <= mtu6 /\ mtu6 <= MAX_MTU
  BY SendIPv4Assumption DEF TypeOK

\* What is known of a packet that is sent.
LEMMA SentFacts ==
  ASSUME TypeOK, ~Unsendable(packet)
  PROVE  /\ packet.offset \in Nat /\ packet.offset <= LAST_OFFSET
         /\ packet.more \in BOOLEAN /\ SentSize(packet) \in Nat
         /\ packet.more => SentSize(packet) % 8 = 0
<1>1. packet \in IPv6Packet
  BY DEF TypeOK
<1>2. packet.more => SentSize(packet) % 8 = 0
  BY <1>1 DEF Unsendable, IsFragment, SentSize
<1>3. QED
  BY <1>1, <1>2, FirstPartAligned DEF IPv6Packet

LEMMA NoPacketType == NoPacket \in IPv6Packet
  BY DEF NoPacket, IPv6Packet

LEMMA InitSafety == Init => TypeOK /\ FragmentInv
<1> SUFFICES ASSUME Init PROVE TypeOK /\ FragmentInv
  OBVIOUS
<1>1. out \in Seq(Piece)
  BY DEF Init
<1>2. TypeOK
  BY <1>1, NoPacketType DEF Init, TypeOK, Finished
<1>3. FragmentInv
  BY DEF Init, FragmentInv, Fragmenting
<1>4. QED
  BY <1>2, <1>3

\* What one iteration of the loop sends.  The size check of xlat_io.c lets it
\* pass, and it is a multiple of 8 bytes unless it ends the part.
LEMMA FragmentSent ==
  ASSUME TypeOK, SendFragment
  PROVE  \E size \in Nat :
           /\ 0 < size /\ size <= left
           /\ size < left => size % 8 = 0
           /\ out' = Append(out, [offset |-> offset, size |-> size,
                                  more |-> (size < left \/ MoreAfterPart), df |-> FALSE])
           /\ left' = left - size
           /\ offset' = offset + size \div 8
<1> DEFINE max == MaxFragmentPayload(mtu4)
           size == FragmentSize(max)
           piece == [offset |-> offset, size |-> size, more |-> MoreAfterFragment(max), df |-> FALSE]
<1>1. max \in Nat /\ max > 0 /\ max % 8 = 0 /\ 20 + max <= mtu4
  BY ConfigBounds, MaxFragmentPayloadFits
<1>2. left \in Nat /\ left > 0
  BY DEF TypeOK, SendFragment
<1>3. out' = Sent(piece, 20 + size) /\ left' = left - size
      /\ offset' = offset + size \div 8
  BY DEF SendFragment
<1> HIDE DEF max
<1>4. /\ size \in Nat /\ 0 < size /\ size <= left /\ 20 + size <= mtu4
      /\ size < left => size % 8 = 0
      /\ size < left <=> left > max
  BY <1>1, <1>2, ConfigBounds DEF FragmentSize
<1>5. piece.more = (size < left \/ MoreAfterPart)
  BY <1>4 DEF MoreAfterFragment
<1> HIDE DEF size
<1>6. piece = [offset |-> offset, size |-> size, more |-> (size < left \/ MoreAfterPart), df |-> FALSE]
  BY <1>5
<1>7. out' = Append(out, piece)
  BY <1>3, <1>4 DEF Sent
<1>8. QED
  BY <1>3, <1>4, <1>6, <1>7

\* The largest packet is sent whole as one piece.
LEMMA WholeSent ==
  ASSUME TypeOK, SendWhole
  PROVE  out' = Append(out, [offset |-> packet.offset, size |-> SentSize(packet),
                             more |-> packet.more,
                             df |-> TranslatedSize(packet) > FRAGMENTABLE])
  BY DEF SendWhole, Sent

-----------------------------------------------------------------------------
\* Every step keeps the types.
LEMMA TypeStep == TypeOK /\ [Next]_vars => TypeOK'
<1> SUFFICES ASSUME TypeOK, [Next]_vars PROVE TypeOK'
  OBVIOUS
<1> USE DEF Finished
<1>0. packet \in IPv6Packet /\ packet.more \in BOOLEAN
  BY DEF TypeOK, IPv6Packet
<1>1. CASE Receive
  <2>1. packet' \in IPv6Packet
    BY <1>1, SendIPv4Assumption DEF Receive
  <2>2. QED
    BY <1>1, <2>1 DEF Receive, TypeOK, config, loop
<1>2. CASE Drop
  BY <1>2 DEF Drop, TypeOK, config, loop
<1>3. CASE SendWhole
  <2> DEFINE piece == [offset |-> packet.offset, size |-> SentSize(packet),
                       more |-> packet.more, df |-> TranslatedSize(packet) > FRAGMENTABLE]
  <2>1. piece \in Piece
    BY <1>3, SentFacts DEF SendWhole, Piece
  <2>2. out' = Append(out, piece)
    BY <1>3, WholeSent
  <2> HIDE DEF piece
  <2>3. out' \in Seq(Piece)
    BY <2>1, <2>2 DEF TypeOK
  <2>4. QED
    BY <1>3, <2>3 DEF SendWhole, TypeOK, config, loop
<1>4. CASE PacketTooBig
  <2>1. NeededMtu(mtu4) \in Nat
    BY ConfigBounds DEF NeededMtu
  <2>2. QED
    BY <1>4, <2>1 DEF PacketTooBig, TypeOK, config, loop
<1>5. CASE StartFragments
  <2> DEFINE first == FirstPartSize(packet)
  <2>1. ~Unsendable(packet)
    BY <1>5 DEF StartFragments
  <2>2. first \in Nat /\ SentSize(packet) \in Nat /\ SentSize(packet) - first \in Nat
    BY <1>0, <2>1, FirstPartAligned
  <2>3. left' \in Nat /\ rest' \in Nat /\ part' \in {1, 2}
    BY <1>5, <2>2 DEF StartFragments
  <2>4. packet.offset \in Nat
    BY <1>0 DEF IPv6Packet
  <2>5. QED
    BY <1>5, <2>3, <2>4 DEF StartFragments, TypeOK, config
<1>6. CASE CheckPart
  BY <1>6 DEF CheckPart, TypeOK, config, loop
<1>7. CASE SendFragment
  <2>1. PICK size \in Nat :
           /\ 0 < size /\ size <= left
           /\ out' = Append(out, [offset |-> offset, size |-> size,
                                  more |-> (size < left \/ MoreAfterPart), df |-> FALSE])
           /\ left' = left - size
           /\ offset' = offset + size \div 8
    BY <1>7, FragmentSent
  <2>2. [offset |-> offset, size |-> size, more |-> (size < left \/ MoreAfterPart), df |-> FALSE] \in Piece
    BY <1>0 DEF TypeOK, Piece, MoreAfterPart
  <2>3. out' \in Seq(Piece)
    BY <2>1, <2>2 DEF TypeOK
  <2>4. left' \in Nat /\ offset' \in Nat
    BY <2>1 DEF TypeOK
  <2>5. QED
    BY <1>7, <2>3, <2>4 DEF SendFragment, TypeOK, config
<1>8. CASE GiveUp
  BY <1>8 DEF GiveUp, TypeOK, config, loop
<1>9. CASE NextPart
  BY <1>9 DEF NextPart, TypeOK, config
<1>10. CASE FragmentsDone
  BY <1>10 DEF FragmentsDone, TypeOK, config, loop
<1>11. CASE Finish
  <2>1. out' \in Seq(Piece)
    BY <1>11 DEF Finish
  <2>2. QED
    BY <1>11, <2>1, NoPacketType DEF Finish, TypeOK, config
<1>12. CASE UNCHANGED vars
  BY <1>12 DEF vars, TypeOK, config, loop
<1>13. QED
  BY <1>1, <1>2, <1>3, <1>4, <1>5, <1>6, <1>7, <1>8, <1>9, <1>10, <1>11, <1>12 DEF Next

\* Every packet whose type is right is of the right type for good.
THEOREM TypeCorrect == Spec => []TypeOK
<1>1. Init => TypeOK
  BY InitSafety
<1>2. QED
  BY <1>1, TypeStep, PTL DEF Spec

-----------------------------------------------------------------------------
\* One fragment moves the boundary between what has been sent and what has
\* not, and keeps the pieces contiguous.
LEMMA SendFragmentStep == TypeOK /\ FragmentInv /\ SendFragment => FragmentInv'
<1> SUFFICES ASSUME TypeOK, FragmentInv, SendFragment PROVE FragmentInv'
  OBVIOUS
<1> DEFINE total == packet.offset * 8 + SentSize(packet)
<1>1. /\ left \in Nat /\ rest \in Nat /\ offset \in Nat /\ part \in {1, 2}
      /\ packet.offset \in Nat /\ packet.more \in BOOLEAN /\ SentSize(packet) \in Nat
      /\ out \in Seq(Piece)
  BY SentFacts DEF TypeOK, SendFragment, FragmentInv, Fragmenting
<1>2. PICK size \in Nat :
        /\ 0 < size /\ size <= left
        /\ size < left => size % 8 = 0
        /\ out' = Append(out, [offset |-> offset, size |-> size,
                               more |-> (size < left \/ MoreAfterPart), df |-> FALSE])
        /\ left' = left - size
        /\ offset' = offset + size \div 8
  BY FragmentSent
<1>3. /\ step = "fragment" /\ step' = "fragment" /\ offset <= LAST_OFFSET
      /\ UNCHANGED <<mtu4, mtu6, packet, rest, part, reported>>
  BY <1>1 DEF SendFragment, OffsetTooLarge, config
<1>4. /\ TranslatedSize(packet) > mtu4
      /\ Contiguous /\ PartsAligned /\ OffsetFollows /\ EndsWhereRestBegins
  BY <1>3 DEF FragmentInv, Fragmenting
<1>5. /\ SentSize(packet)' = SentSize(packet) /\ TranslatedSize(packet)' = TranslatedSize(packet)
      /\ Unsendable(packet)' = Unsendable(packet)
  BY <1>3
<1>6. /\ offset * 8 + left + rest = total /\ left + rest <= SentSize(packet)
      /\ total \in Nat
  BY <1>1, <1>2, <1>4 DEF OffsetFollows, Remaining
<1>7. rest > 0 => part = 1
  BY <1>1, <1>4 DEF PartsAligned
<1>8. (size < left \/ rest > 0) => size % 8 = 0
  BY <1>1, <1>2, <1>4, <1>7 DEF PartsAligned
<1> DEFINE piece == [offset |-> offset, size |-> size, more |-> (size < left \/ MoreAfterPart), df |-> FALSE]
<1>9. piece \in Piece
  BY <1>1 DEF Piece, MoreAfterPart
<1>10. /\ Len(out') = Len(out) + 1 /\ Len(out) \in Nat
       /\ out'[Len(out) + 1] = piece
       /\ \A i \in 1..Len(out) : out'[i] = out[i]
       /\ \A i \in 1..Len(out) : out[i] \in Piece
  BY <1>1, <1>2, <1>9
<1>11. piece.offset = offset /\ piece.size = size
       /\ piece.more = (size < left \/ MoreAfterPart)
  OBVIOUS
<1> HIDE DEF piece, total
<1>12. out # <<>> => Len(out) > 0
  BY <1>1
<1>13. Contiguous'
  <2>1. \A i \in 1..Len(out') : out'[i].offset <= LAST_OFFSET
    <3> SUFFICES ASSUME NEW i \in 1..Len(out') PROVE out'[i].offset <= LAST_OFFSET
      OBVIOUS
    <3>1. CASE i <= Len(out)
      BY <1>4, <1>10, <3>1 DEF Contiguous
    <3>2. CASE i = Len(out) + 1
      BY <1>3, <1>10, <1>11, <3>2
    <3>3. QED
      BY <1>10, <3>1, <3>2
  <2>2. out'[1].offset = packet.offset
    <3>1. CASE out = <<>>
      BY <1>4, <1>10, <1>11, <3>1 DEF EndsWhereRestBegins
    <3>2. CASE out # <<>>
      BY <1>4, <1>10, <1>12, <3>2 DEF Contiguous
    <3>3. QED
      BY <3>1, <3>2
  <2>3. \A i \in 1..(Len(out') - 1) :
          /\ out'[i + 1].offset * 8 = out'[i].offset * 8 + out'[i].size
          /\ out'[i].more
    <3> SUFFICES ASSUME NEW i \in 1..(Len(out') - 1)
                 PROVE  /\ out'[i + 1].offset * 8 = out'[i].offset * 8 + out'[i].size
                        /\ out'[i].more
      OBVIOUS
    <3>1. CASE i < Len(out)
      BY <1>4, <1>10, <3>1 DEF Contiguous
    <3>2. CASE i = Len(out)
      <4>1. out # <<>>
        BY <1>10, <3>2
      <4>2. /\ out[i].offset * 8 + out[i].size + (left + rest) = total
            /\ out[i].more
        BY <1>1, <1>2, <1>4, <3>2, <4>1 DEF EndsWhereRestBegins, Remaining, total
      <4>3. out[i].offset \in Nat /\ out[i].size \in Nat
        BY <1>10, <3>2 DEF Piece
      <4>4. out[i].offset * 8 + out[i].size = offset * 8
        <5> DEFINE o == out[i].offset
                   n == out[i].size
        <5>1. o \in Nat /\ n \in Nat /\ o * 8 + n + (left + rest) = total
          BY <4>2, <4>3
        <5>2. left \in Nat /\ rest \in Nat /\ offset \in Nat
          BY <1>1
        <5> HIDE DEF o, n
        <5>3. o * 8 + n = offset * 8
          BY <1>6, <5>1, <5>2
        <5>4. QED
          BY <5>3 DEF o, n
      <4>5. QED
        BY <1>10, <1>11, <3>2, <4>2, <4>4
    <3>3. QED
      BY <1>10, <3>1, <3>2
  <2>4. QED
    BY <1>3, <2>1, <2>2, <2>3 DEF Contiguous
<1>14. PartsAligned'
  <2>1. part = 1 => (left - size) % 8 = 0
    BY <1>1, <1>2, <1>4 DEF PartsAligned
  <2>2. packet.more => ((left - size) + rest) % 8 = 0
    BY <1>1, <1>2, <1>4 DEF PartsAligned
  <2>3. part = 2 => rest = 0
    BY <1>4 DEF PartsAligned
  <2>4. QED
    BY <1>2, <1>3, <2>1, <2>2, <2>3 DEF PartsAligned
<1>15. Remaining' = (left - size) + rest /\ Remaining' \in Nat
  BY <1>1, <1>2, <1>3 DEF Remaining
<1>16. total' = total
  BY <1>3, <1>5 DEF total
<1>17. OffsetFollows'
  <2>1. Remaining' > 0 => offset' * 8 = offset * 8 + size
    BY <1>1, <1>2, <1>8, <1>15
  <2>2. Remaining' > 0 => offset' * 8 + Remaining' = total
    BY <1>1, <1>2, <1>6, <1>15, <2>1
  <2>3. Remaining' <= SentSize(packet)
    BY <1>1, <1>2, <1>6, <1>15
  <2>4. QED
    BY <1>3, <1>5, <2>2, <2>3 DEF OffsetFollows, total
<1>18. EndsWhereRestBegins'
  <2>1. out' # <<>>
    BY <1>10
  <2>2. piece.offset * 8 + piece.size + Remaining' = total
    BY <1>1, <1>2, <1>6, <1>11, <1>15
  <2>3. piece.more <=> (Remaining' > 0 \/ packet.more)
    <3>1. (size < left \/ rest > 0) <=> Remaining' > 0
      BY <1>1, <1>2, <1>15
    <3>2. (size < left \/ MoreAfterPart) <=> (size < left \/ rest > 0 \/ packet.more)
      BY <1>7 DEF MoreAfterPart
    <3>3. QED
      BY <1>11, <3>1, <3>2, Zenon
  <2>4. out'[Len(out')] = piece
    BY <1>10
  <2>5. QED
    BY <1>3, <1>5, <2>1, <2>2, <2>3, <2>4 DEF EndsWhereRestBegins, total
<1>19. ~Unsendable(packet)
  BY <1>3 DEF FragmentInv, Fragmenting
<1>20. QED
  BY <1>3, <1>4, <1>5, <1>19, <1>13, <1>14, <1>17, <1>18 DEF FragmentInv, Fragmenting

\* The fragments of a packet start where its payload does.
LEMMA StartFragmentsStep == TypeOK /\ FragmentInv /\ StartFragments => FragmentInv'
<1> SUFFICES ASSUME TypeOK, FragmentInv, StartFragments PROVE FragmentInv'
  OBVIOUS
<1> DEFINE first == FirstPartSize(packet)
<1>0. ~Unsendable(packet) /\ packet \in IPv6Packet
  BY DEF StartFragments, TypeOK
<1>1. /\ packet.offset \in Nat /\ packet.more \in BOOLEAN /\ SentSize(packet) \in Nat
      /\ packet.more => SentSize(packet) % 8 = 0
      /\ first \in Nat /\ first <= SentSize(packet) /\ first % 8 = 0
  BY <1>0, SentFacts, FirstPartAligned
<1>2. /\ out = <<>> /\ out' = <<>> /\ step' = "part"
      /\ TranslatedSize(packet) > mtu4
      /\ offset' = packet.offset
      /\ UNCHANGED <<mtu4, mtu6, packet, reported>>
  BY <1>1 DEF StartFragments, FragmentInv, config
<1>3. \/ part' = 1 /\ left' = first /\ rest' = SentSize(packet) - first
      \/ part' = 2 /\ left' = SentSize(packet) /\ rest' = 0
  BY DEF StartFragments
<1> HIDE DEF first
<1>4. /\ SentSize(packet)' = SentSize(packet) /\ TranslatedSize(packet)' = TranslatedSize(packet)
      /\ Unsendable(packet)' = Unsendable(packet)
  BY <1>2
<1>5. Remaining' = SentSize(packet)
  BY <1>1, <1>3 DEF Remaining
<1>6. Contiguous'
  BY <1>2 DEF Contiguous
<1>7. PartsAligned'
  <2>1. part' = 1 => left' % 8 = 0
    BY <1>1, <1>3
  <2>2. part' = 2 => rest' = 0
    BY <1>3
  <2>3. left' + rest' = SentSize(packet)
    BY <1>5 DEF Remaining
  <2>4. QED
    BY <1>1, <1>2, <2>1, <2>2, <2>3 DEF PartsAligned
<1>8. OffsetFollows'
  BY <1>1, <1>2, <1>4, <1>5 DEF OffsetFollows
<1>9. EndsWhereRestBegins'
  BY <1>2, <1>4, <1>5 DEF EndsWhereRestBegins
<1>10. QED
  BY <1>0, <1>2, <1>4, <1>6, <1>7, <1>8, <1>9 DEF FragmentInv, Fragmenting

\* Steps of the loop that send nothing.  In particular the check of a part's
\* size never fails: both parts are cut at multiples of 8 bytes.
LEMMA QuietStep ==
  ASSUME TypeOK, FragmentInv, CheckPart \/ GiveUp \/ NextPart \/ FragmentsDone
  PROVE  FragmentInv'
<1>1. /\ left \in Nat /\ rest \in Nat /\ offset \in Nat /\ part \in {1, 2}
      /\ packet.more \in BOOLEAN
  BY DEF TypeOK, IPv6Packet
<1>2. step \in Fragmenting
  BY DEF CheckPart, GiveUp, NextPart, FragmentsDone, Fragmenting
<1>3. /\ TranslatedSize(packet) > mtu4 /\ ~Unsendable(packet)
      /\ Contiguous /\ PartsAligned /\ OffsetFollows /\ EndsWhereRestBegins
  BY <1>2 DEF FragmentInv
<1>4. UNCHANGED <<mtu4, mtu6, packet, offset, out, reported>>
  BY DEF CheckPart, GiveUp, NextPart, FragmentsDone, config, loop
<1>5. Remaining' = Remaining
  BY <1>1 DEF CheckPart, GiveUp, NextPart, FragmentsDone, Remaining, loop
<1>6. /\ SentSize(packet)' = SentSize(packet) /\ TranslatedSize(packet)' = TranslatedSize(packet)
      /\ Unsendable(packet)' = Unsendable(packet)
  BY <1>4
<1>7. Contiguous'
  BY <1>3, <1>4 DEF Contiguous
<1>8. PartsAligned'
  <2>1. CASE NextPart
    <3>1. part' = 2 /\ rest' = 0 /\ left' = rest /\ left = 0
      BY <2>1 DEF NextPart
    <3>2. left' + rest' = left + rest
      BY <1>1, <3>1
    <3>3. QED
      BY <1>3, <1>4, <3>1, <3>2 DEF PartsAligned
  <2>2. CASE CheckPart \/ GiveUp \/ FragmentsDone
    BY <1>3, <2>2 DEF CheckPart, GiveUp, FragmentsDone, PartsAligned, loop
  <2>3. QED
    BY <2>1, <2>2
<1>9. OffsetFollows'
  BY <1>3, <1>4, <1>5, <1>6 DEF OffsetFollows
<1>10. EndsWhereRestBegins'
  BY <1>3, <1>4, <1>5, <1>6 DEF EndsWhereRestBegins
<1>11. /\ step' \in {"part", "fragment", "fragmented", "aborted"}
       /\ step' = "fragmented" => Remaining' = 0
       /\ step' = "aborted" => Remaining' > 0 /\ offset' > LAST_OFFSET
  <2>1. CASE CheckPart
    <3>1. part = 2 => left + rest = left
      BY <1>1, <1>3 DEF PartsAligned
    <3>2. MoreAfterPart => left % 8 = 0
      BY <1>1, <1>3, <3>1 DEF MoreAfterPart, PartsAligned
    <3>3. QED
      BY <2>1, <3>2 DEF CheckPart
  <2>2. CASE GiveUp
    BY <1>1, <1>4, <1>5, <2>2 DEF GiveUp, OffsetTooLarge, Remaining
  <2>3. CASE NextPart
    BY <2>3 DEF NextPart
  <2>4. CASE FragmentsDone
    BY <1>1, <1>5, <2>4 DEF FragmentsDone, Remaining
  <2>5. QED
    BY <2>1, <2>2, <2>3, <2>4
<1>12. QED
  BY <1>3, <1>4, <1>6, <1>7, <1>8, <1>9, <1>10, <1>11 DEF FragmentInv, Fragmenting

\* The error message passes the size check.
LEMMA ErrorGoesOut ==
  ASSUME TypeOK, PacketTooBig
  PROVE  reported' = NeededMtu(mtu4)
<1>1. ErrorSize(packet) <= mtu6
  BY ConfigBounds DEF ErrorSize, TypeOK, IPv6Packet
<1>2. QED
  BY <1>1 DEF PacketTooBig

LEMMA FragmentStep == TypeOK /\ FragmentInv /\ [Next]_vars => FragmentInv'
<1> SUFFICES ASSUME TypeOK, FragmentInv, [Next]_vars PROVE FragmentInv'
  OBVIOUS
<1> USE DEF Fragmenting
<1>1. CASE Receive
  BY <1>1 DEF Receive, FragmentInv
<1>2. CASE Drop
  BY <1>2 DEF Drop, FragmentInv
<1>3. CASE SendWhole
  <2> DEFINE piece == [offset |-> packet.offset, size |-> SentSize(packet),
                       more |-> packet.more, df |-> TranslatedSize(packet) > FRAGMENTABLE]
  <2>1. /\ out' = Append(out, piece) /\ out = <<>> /\ packet' = packet /\ step' = "sent"
        /\ ~Unsendable(packet)
    BY <1>3, WholeSent DEF SendWhole, FragmentInv
  <2>2. piece' = piece /\ Unsendable(packet)' = Unsendable(packet)
    BY <2>1
  <2> HIDE DEF piece
  <2>3. out' = <<piece>>
    BY <2>1
  <2>4. QED
    BY <2>1, <2>2, <2>3 DEF FragmentInv, piece
<1>4. CASE PacketTooBig
  <2>1. packet' = packet /\ mtu4' = mtu4
    BY <1>4 DEF PacketTooBig, config
  <2>2. /\ TranslatedSize(packet)' = TranslatedSize(packet)
        /\ Unsendable(packet)' = Unsendable(packet)
        /\ NeededMtu(mtu4)' = NeededMtu(mtu4)
    BY <2>1
  <2>3. QED
    BY <1>4, <2>1, <2>2, ErrorGoesOut DEF PacketTooBig, FragmentInv
<1>5. CASE StartFragments
  BY <1>5, StartFragmentsStep
<1>6. CASE CheckPart \/ GiveUp \/ NextPart \/ FragmentsDone
  BY <1>6, QuietStep
<1>7. CASE SendFragment
  BY <1>7, SendFragmentStep
<1>8. CASE Finish
  BY <1>8 DEF Finish, FragmentInv
<1>9. CASE UNCHANGED vars
  BY <1>9 DEF vars, config, loop, FragmentInv, Contiguous, PartsAligned, OffsetFollows,
              EndsWhereRestBegins, Remaining
<1>10. QED
  BY <1>1, <1>2, <1>3, <1>4, <1>5, <1>6, <1>7, <1>8, <1>9 DEF Next

\* The inductive invariant holds in every reachable state.
THEOREM SafetyInvariant == Spec => [](TypeOK /\ FragmentInv)
<1>1. Init => TypeOK /\ FragmentInv
  BY InitSafety
<1>2. (TypeOK /\ FragmentInv) /\ [Next]_vars => (TypeOK /\ FragmentInv)'
  BY TypeStep, FragmentStep
<1>3. QED
  BY <1>1, <1>2, PTL DEF Spec

-----------------------------------------------------------------------------
\* Whatever is sent for a packet puts together to exactly its payload.
THEOREM PayloadReassembles == Spec => []Reassembles
<1>1. TypeOK /\ FragmentInv => Reassembles
  <2> SUFFICES ASSUME TypeOK, FragmentInv, step \in {"sent", "fragmented"} PROVE
                 /\ Contiguous
                 /\ out # <<>>
                 /\ LET last == out[Len(out)] IN
                      /\ last.offset * 8 + last.size = packet.offset * 8 + SentSize(packet)
                      /\ last.more = packet.more
    BY DEF Reassembles
  <2>1. /\ packet.offset \in Nat /\ packet.offset <= LAST_OFFSET
        /\ packet.more \in BOOLEAN /\ SentSize(packet) \in Nat /\ out \in Seq(Piece)
    BY SentFacts DEF TypeOK, FragmentInv, Fragmenting
  <2>2. CASE step = "sent"
    <3>1. out = <<[offset |-> packet.offset, size |-> SentSize(packet), more |-> packet.more,
                   df |-> TranslatedSize(packet) > FRAGMENTABLE]>>
      BY <2>2 DEF FragmentInv
    <3>2. /\ Len(out) = 1 /\ out # <<>>
          /\ out[1].offset = packet.offset
          /\ out[1].size = SentSize(packet)
          /\ out[1].more = packet.more
      BY <3>1
    <3>3. Contiguous
      BY <2>1, <3>2 DEF Contiguous
    <3>4. QED
      BY <3>2, <3>3
  <2>3. CASE step = "fragmented"
    <3>1. Contiguous /\ EndsWhereRestBegins /\ Remaining = 0 /\ TranslatedSize(packet) > mtu4
      BY <2>3 DEF FragmentInv, Fragmenting
    <3>2. SentSize(packet) > 0
      BY <2>1, <3>1, ConfigBounds DEF TranslatedSize
    <3>3. out # <<>>
      BY <3>1, <3>2 DEF EndsWhereRestBegins
    <3>4. Len(out) \in Nat /\ Len(out) > 0
      BY <2>1, <3>3
    <3>5. out[Len(out)] \in Piece
      BY <2>1, <3>4
    <3> DEFINE last == out[Len(out)]
    <3>6. last.offset \in Nat /\ last.size \in Nat /\ last.more \in BOOLEAN
      BY <3>5 DEF Piece
    <3>7. last.offset * 8 + last.size + 0 = packet.offset * 8 + SentSize(packet)
          /\ (last.more <=> (0 > 0 \/ packet.more))
      BY <3>1, <3>3 DEF EndsWhereRestBegins
    <3> HIDE DEF last
    <3>8. last.offset * 8 + last.size = packet.offset * 8 + SentSize(packet)
      BY <3>6, <3>7
    <3>9. last.more = packet.more
      BY <2>1, <3>6, <3>7
    <3>10. QED
      BY <3>1, <3>3, <3>8, <3>9 DEF last
  <2>4. QED
    BY <2>2, <2>3
<1>2. QED
  BY <1>1, SafetyInvariant, PTL

\* Only a packet that reaches beyond the end of its datagram is given up.
THEOREM AbortsOnlyBeyondDatagram == Spec => []GivesUpOnlyBeyondDatagram
<1>1. TypeOK /\ FragmentInv => GivesUpOnlyBeyondDatagram
  <2> SUFFICES ASSUME TypeOK, FragmentInv, step = "aborted"
               PROVE  packet.offset * 8 + SentSize(packet) > 8 * (LAST_OFFSET + 1)
    BY DEF GivesUpOnlyBeyondDatagram
  <2>1. Remaining > 0 /\ offset > LAST_OFFSET /\ OffsetFollows
    BY DEF FragmentInv, Fragmenting
  <2>2. /\ left \in Nat /\ rest \in Nat /\ offset \in Nat
        /\ packet.offset \in Nat /\ SentSize(packet) \in Nat
    BY SentFacts DEF TypeOK, FragmentInv, Fragmenting
  <2>3. QED
    BY <2>1, <2>2 DEF OffsetFollows, Remaining
<1>2. QED
  BY <1>1, SafetyInvariant, PTL

\* A packet that may not be fragmented is not an error message: those are cut.
LEMMA BouncedPacket ==
  ASSUME NEW p \in IPv6Packet, ~Unsendable(p), TranslatedSize(p) > FRAGMENTABLE
  PROVE  p.proto # "error" /\ TranslatedSize(p) = p.size - p.ext - 20
<1>1. p.size \in Nat /\ p.ext \in Nat /\ p.inner \in Nat
  BY DEF IPv6Packet
<1>2. p.proto # "error"
  BY <1>1 DEF TranslatedSize, SentSize, ErrorMessageSize, Quoted, PayloadSize
<1>3. QED
  BY <1>1, <1>2 DEF TranslatedSize, SentSize, PayloadSize

\* One Packet Too Big message settles the source's path MTU.
THEOREM ReportedMtuSuffices == Spec => []ReportedMtuWorks
<1>1. TypeOK /\ FragmentInv => ReportedMtuWorks
  <2> SUFFICES ASSUME TypeOK, FragmentInv, step = "bounced"
               PROVE  /\ reported >= MIN_MTU_IPV6
                      /\ reported < packet.size
                      /\ \A size \in (40 + packet.ext)..reported :
                           LET total == TranslatedSize([packet EXCEPT !.size = size])
                           IN  total <= FRAGMENTABLE \/ total <= mtu4
    BY DEF ReportedMtuWorks
  <2>1. /\ packet \in IPv6Packet /\ packet.size \in Nat /\ packet.ext \in Nat
    BY DEF TypeOK, IPv6Packet
  <2>2. /\ ~Unsendable(packet)
        /\ TranslatedSize(packet) > mtu4
        /\ TranslatedSize(packet) > FRAGMENTABLE
        /\ reported = NeededMtu(mtu4)
    BY DEF FragmentInv
  <2>3. packet.proto # "error" /\ TranslatedSize(packet) = packet.size - packet.ext - 20
    BY <2>1, <2>2, BouncedPacket
  <2>4. /\ reported \in Nat /\ reported >= 1280
        /\ reported = 1280 \/ reported = mtu4 + 20
    BY <2>2, ConfigBounds DEF NeededMtu
  <2>5. reported < packet.size
    BY <2>1, <2>2, <2>3, <2>4, ConfigBounds
  <2>6. ASSUME NEW size \in (40 + packet.ext)..reported
        PROVE  \/ TranslatedSize([packet EXCEPT !.size = size]) <= FRAGMENTABLE
               \/ TranslatedSize([packet EXCEPT !.size = size]) <= mtu4
    <3> DEFINE p == [packet EXCEPT !.size = size]
    <3>1. p.size = size /\ p.ext = packet.ext /\ p.proto = packet.proto
      BY <2>1 DEF IPv6Packet
    <3>2. size \in Int /\ size <= reported
      BY <2>1, <2>4
    <3> HIDE DEF p
    <3>3. TranslatedSize(p) = size - packet.ext - 20
      BY <2>1, <2>3, <3>1, <3>2 DEF TranslatedSize, SentSize, PayloadSize
    <3>4. TranslatedSize(p) <= FRAGMENTABLE \/ TranslatedSize(p) <= mtu4
      BY <2>1, <2>4, <3>2, <3>3, ConfigBounds
    <3>5. QED
      BY <3>4 DEF p
  <2>7. QED
    BY <2>4, <2>5, <2>6
<1>2. QED
  BY <1>1, SafetyInvariant, PTL

\* The loop that sends fragments ends, and makes no more of them than needed.
THEOREM FragmentsAreNeeded == Spec => FragmentsAreFull
<1>1. ASSUME TypeOK, SendFragment
      PROVE  left' < left /\ (left' > 0 => 20 + (left - left') + 8 > mtu4)
  <2> DEFINE max == MaxFragmentPayload(mtu4)
  <2>1. mtu4 \in Nat /\ mtu4 >= 20 + 8
    BY <1>1, ConfigBounds
  <2>2. max \in Nat /\ max > 0 /\ 20 + max + 8 > mtu4
    BY <2>1 DEF MaxFragmentPayload
  <2>3. left \in Nat /\ left > 0 /\ left' = left - FragmentSize(max)
    BY <1>1 DEF TypeOK, SendFragment
  <2> HIDE DEF max
  <2> QED
    BY <2>1, <2>2, <2>3 DEF FragmentSize
<1>2. TypeOK /\ FragmentInv /\ [Next]_vars
      => [SendFragment => left' < left /\ (left' > 0 => 20 + (left - left') + 8 > mtu4)]_vars
  BY <1>1
<1> QED
  BY <1>2, SafetyInvariant, PTL DEF Spec, FragmentsAreFull
=============================================================================
