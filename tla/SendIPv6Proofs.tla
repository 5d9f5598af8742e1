----------------------------- MODULE SendIPv6Proofs -----------------------------
(****************************************************************************)
(* For every MTU the configuration accepts and every IPv4 packet: the       *)
(* fragments reassemble to the payload, fragmentation is given up only      *)
(* beyond the end of a datagram, and the MTU reported to a source works.    *)
(****************************************************************************)
EXTENDS SendIPv6, TLAPS

USE DEF MIN_MTU_IPV4, MIN_MTU_IPV6, MAX_MTU, LAST_OFFSET

\* The largest fragment payload is a positive multiple of 8 bytes that leaves
\* room for both headers.
LEMMA MaxFragmentPayloadFits ==
  ASSUME NEW m \in Nat, m >= MIN_MTU_IPV6
  PROVE  /\ MaxFragmentPayload(m) \in Nat
         /\ MaxFragmentPayload(m) > 0
         /\ MaxFragmentPayload(m) % 8 = 0
         /\ 48 + MaxFragmentPayload(m) <= m
  BY DEF MaxFragmentPayload

\* The first part of a payload is a part of it, of a multiple of 8 bytes.
LEMMA FirstPartAligned ==
  ASSUME NEW p \in IPv4Packet
  PROVE  /\ PayloadSize(p) \in Nat
         /\ FirstPartSize(p) \in {0, 8, 24}
         /\ FirstPartSize(p) <= PayloadSize(p)
         /\ FirstPartSize(p) % 8 = 0
<1>1. PayloadSize(p) \in Nat
  BY DEF PayloadSize, IPv4Packet
<1>2. FirstPartSize(p) \in {0, 8, 24} /\ FirstPartSize(p) <= PayloadSize(p)
  BY <1>1 DEF FirstPartSize
<1>3. FirstPartSize(p) % 8 = 0
  BY <1>2
<1>4. QED
  BY <1>1, <1>2, <1>3, Zenon

\* The values of the configuration.
LEMMA ConfigBounds ==
  ASSUME TypeOK
  PROVE  /\ mtu6 \in Nat /\ MIN_MTU_IPV6 <= mtu6 /\ mtu6 <= MAX_MTU
         /\ mtu4 \in Nat /\ MIN_MTU_IPV4 <= mtu4 /\ mtu4 <= MAX_MTU
  BY SendIPv6Assumption DEF TypeOK

LEMMA NoPacketType == NoPacket \in IPv4Packet
  BY DEF NoPacket, IPv4Packet

LEMMA InitSafety == Init => TypeOK /\ FragmentInv
<1> SUFFICES ASSUME Init PROVE TypeOK /\ FragmentInv
  OBVIOUS
<1>1. out \in Seq(Piece)
  BY DEF Init
<1>2. TypeOK
  BY <1>1, NoPacketType DEF Init, TypeOK, Finished
<1>3. FragmentInv
  BY DEF Init, FragmentInv, Fragmenting
<1>4. QED
  BY <1>2, <1>3

\* What one iteration of the loop sends.  The size check of xlat_io.c lets it
\* pass, and it is a multiple of 8 bytes unless it ends the part.
LEMMA FragmentSent ==
  ASSUME TypeOK, SendFragment
  PROVE  \E size \in Nat :
           /\ 0 < size /\ size <= left
           /\ size < left => size % 8 = 0
           /\ out' = Append(out, [offset |-> offset, size |-> size,
                                  more |-> (size < left \/ MoreAfterPart)])
           /\ left' = left - size
           /\ offset' = offset + size \div 8
<1> DEFINE max == MaxFragmentPayload(mtu6)
           size == FragmentSize(max)
           piece == [offset |-> offset, size |-> size, more |-> MoreAfterFragment(max)]
<1>1. max \in Nat /\ max > 0 /\ max % 8 = 0 /\ 48 + max <= mtu6
  BY ConfigBounds, MaxFragmentPayloadFits
<1>2. left \in Nat /\ left > 0
  BY DEF TypeOK, SendFragment
<1>3. out' = Sent(piece, 48 + size) /\ left' = left - size
      /\ offset' = offset + size \div 8
  BY DEF SendFragment
<1> HIDE DEF max
<1>4. /\ size \in Nat /\ 0 < size /\ size <= left /\ 48 + size <= mtu6
      /\ size < left => size % 8 = 0
      /\ size < left <=> left > max
  BY <1>1, <1>2, ConfigBounds DEF FragmentSize
<1>5. piece.more = (size < left \/ MoreAfterPart)
  BY <1>4 DEF MoreAfterFragment
<1> HIDE DEF size
<1>6. piece = [offset |-> offset, size |-> size, more |-> (size < left \/ MoreAfterPart)]
  BY <1>5
<1>7. out' = Append(out, piece)
  BY <1>3, <1>4 DEF Sent
<1>8. QED
  BY <1>3, <1>4, <1>6, <1>7

\* The largest packet is sent whole as one piece.
LEMMA WholeSent ==
  ASSUME TypeOK, SendWhole
  PROVE  out' = Append(out, [offset |-> packet.offset, size |-> PayloadSize(packet),
                             more |-> packet.more])
  BY DEF SendWhole, Sent

-----------------------------------------------------------------------------
\* Every step keeps the types.
LEMMA TypeStep == TypeOK /\ [Next]_vars => TypeOK'
<1> SUFFICES ASSUME TypeOK, [Next]_vars PROVE TypeOK'
  OBVIOUS
<1> USE DEF Finished
<1>0. packet.offset \in Nat /\ packet.more \in BOOLEAN /\ PayloadSize(packet) \in Nat
  BY FirstPartAligned DEF TypeOK, IPv4Packet
<1>1. CASE Receive
  <2>1. packet' \in IPv4Packet
    BY <1>1, SendIPv6Assumption DEF Receive
  <2>2. QED
    BY <1>1, <2>1 DEF Receive, TypeOK, config, loop
<1>2. CASE Drop
  BY <1>2 DEF Drop, TypeOK, config, loop
<1>3. CASE SendWhole
  <2> DEFINE piece == [offset |-> packet.offset, size |-> PayloadSize(packet),
                       more |-> packet.more]
  <2>1. piece \in Piece
    BY <1>0 DEF Piece
  <2>2. out' = Append(out, piece)
    BY <1>3, WholeSent
  <2> HIDE DEF piece
  <2>3. out' \in Seq(Piece)
    BY <2>1, <2>2 DEF TypeOK
  <2>4. QED
    BY <1>3, <2>3 DEF SendWhole, TypeOK, config, loop
<1>4. CASE FragmentationNeeded
  <2>1. NeededMtu(mtu6) \in Nat
    BY ConfigBounds DEF NeededMtu
  <2>2. QED
    BY <1>4, <2>1 DEF FragmentationNeeded, TypeOK, config, loop
<1>5. CASE StartFragments
  <2> DEFINE first == FirstPartSize(packet)
  <2>1. first \in Nat /\ PayloadSize(packet) - first \in Nat
    BY <1>0, FirstPartAligned DEF TypeOK
  <2>2. left' \in Nat /\ rest' \in Nat /\ part' \in {1, 2}
    BY <1>5, <1>0, <2>1 DEF StartFragments
  <2>3. QED
    BY <1>5, <1>0, <2>2 DEF StartFragments, TypeOK, config
<1>6. CASE CheckPart
  BY <1>6 DEF CheckPart, TypeOK, config, loop
<1>7. CASE SendFragment
  <2>1. PICK size \in Nat :
           /\ 0 < size /\ size <= left
           /\ out' = Append(out, [offset |-> offset, size |-> size,
                                  more |-> (size < left \/ MoreAfterPart)])
           /\ left' = left - size
           /\ offset' = offset + size \div 8
    BY <1>7, FragmentSent
  <2>2. [offset |-> offset, size |-> size, more |-> (size < left \/ MoreAfterPart)] \in Piece
    BY <1>0 DEF TypeOK, Piece, MoreAfterPart
  <2>3. out' \in Seq(Piece)
    BY <2>1, <2>2 DEF TypeOK
  <2>4. left' \in Nat /\ offset' \in Nat
    BY <2>1 DEF TypeOK
  <2>5. QED
    BY <1>7, <2>3, <2>4 DEF SendFragment, TypeOK, config
<1>8. CASE GiveUp
  BY <1>8 DEF GiveUp, TypeOK, config, loop
<1>9. CASE NextPart
  BY <1>9 DEF NextPart, TypeOK, config
<1>10. CASE FragmentsDone
  BY <1>10 DEF FragmentsDone, TypeOK, config, loop
<1>11. CASE Finish
  <2>1. out' \in Seq(Piece)
    BY <1>11 DEF Finish
  <2>2. QED
    BY <1>11, <2>1, NoPacketType DEF Finish, TypeOK, config
<1>12. CASE UNCHANGED vars
  BY <1>12 DEF vars, TypeOK, config, loop
<1>13. QED
  BY <1>1, <1>2, <1>3, <1>4, <1>5, <1>6, <1>7, <1>8, <1>9, <1>10, <1>11, <1>12 DEF Next

\* Every packet whose type is right is of the right type for good.
THEOREM TypeCorrect == Spec => []TypeOK
<1>1. Init => TypeOK
  BY InitSafety
<1>2. QED
  BY <1>1, TypeStep, PTL DEF Spec

-----------------------------------------------------------------------------
\* One fragment moves the boundary between what has been sent and what has
\* not, and keeps the pieces contiguous.
LEMMA SendFragmentStep == TypeOK /\ FragmentInv /\ SendFragment => FragmentInv'
<1> SUFFICES ASSUME TypeOK, FragmentInv, SendFragment PROVE FragmentInv'
  OBVIOUS
<1> DEFINE total == packet.offset * 8 + PayloadSize(packet)
<1>1. /\ left \in Nat /\ rest \in Nat /\ offset \in Nat /\ part \in {1, 2}
      /\ packet.offset \in Nat /\ packet.more \in BOOLEAN /\ PayloadSize(packet) \in Nat
      /\ out \in Seq(Piece)
  BY FirstPartAligned DEF TypeOK, IPv4Packet
<1>2. PICK size \in Nat :
        /\ 0 < size /\ size <= left
        /\ size < left => size % 8 = 0
        /\ out' = Append(out, [offset |-> offset, size |-> size,
                               more |-> (size < left \/ MoreAfterPart)])
        /\ left' = left - size
        /\ offset' = offset + size \div 8
  BY FragmentSent
<1>3. /\ step = "fragment" /\ step' = "fragment" /\ offset <= LAST_OFFSET
      /\ UNCHANGED <<mtu6, mtu4, packet, rest, part, reported>>
  BY <1>1 DEF SendFragment, OffsetTooLarge, config
<1>4. /\ TranslatedSize(packet) > mtu6
      /\ Contiguous /\ PartsAligned /\ OffsetFollows /\ EndsWhereRestBegins
  BY <1>3 DEF FragmentInv, Fragmenting
<1>5. PayloadSize(packet)' = PayloadSize(packet) /\ TranslatedSize(packet)' = TranslatedSize(packet)
  BY <1>3 DEF PayloadSize, TranslatedSize, IsFragment
<1>6. /\ offset * 8 + left + rest = total /\ left + rest <= PayloadSize(packet)
      /\ total \in Nat
  BY <1>1, <1>2, <1>4 DEF OffsetFollows, Remaining
<1>7. rest > 0 => part = 1
  BY <1>1, <1>4 DEF PartsAligned
<1>8. (size < left \/ rest > 0) => size % 8 = 0
  BY <1>1, <1>2, <1>4, <1>7 DEF PartsAligned
<1> DEFINE piece == [offset |-> offset, size |-> size, more |-> (size < left \/ MoreAfterPart)]
<1>9. piece \in Piece
  BY <1>1 DEF Piece, MoreAfterPart
<1>10. /\ Len(out') = Len(out) + 1 /\ Len(out) \in Nat
       /\ out'[Len(out) + 1] = piece
       /\ \A i \in 1..Len(out) : out'[i] = out[i]
       /\ \A i \in 1..Len(out) : out[i] \in Piece
  BY <1>1, <1>2, <1>9
<1>11. piece.offset = offset /\ piece.size = size
       /\ piece.more = (size < left \/ MoreAfterPart)
  OBVIOUS
<1> HIDE DEF piece, total
<1>12. out # <<>> => Len(out) > 0
  BY <1>1
<1>13. Contiguous'
  <2>1. \A i \in 1..Len(out') : out'[i].offset <= LAST_OFFSET
    <3> SUFFICES ASSUME NEW i \in 1..Len(out') PROVE out'[i].offset <= LAST_OFFSET
      OBVIOUS
    <3>1. CASE i <= Len(out)
      BY <1>4, <1>10, <3>1 DEF Contiguous
    <3>2. CASE i = Len(out) + 1
      BY <1>3, <1>10, <1>11, <3>2
    <3>3. QED
      BY <1>10, <3>1, <3>2
  <2>2. out'[1].offset = packet.offset
    <3>1. CASE out = <<>>
      BY <1>4, <1>10, <1>11, <3>1 DEF EndsWhereRestBegins
    <3>2. CASE out # <<>>
      BY <1>4, <1>10, <1>12, <3>2 DEF Contiguous
    <3>3. QED
      BY <3>1, <3>2
  <2>3. \A i \in 1..(Len(out') - 1) :
          /\ out'[i + 1].offset * 8 = out'[i].offset * 8 + out'[i].size
          /\ out'[i].more
    <3> SUFFICES ASSUME NEW i \in 1..(Len(out') - 1)
                 PROVE  /\ out'[i + 1].offset * 8 = out'[i].offset * 8 + out'[i].size
                        /\ out'[i].more
      OBVIOUS
    <3>1. CASE i < Len(out)
      BY <1>4, <1>10, <3>1 DEF Contiguous
    <3>2. CASE i = Len(out)
      <4>1. out # <<>>
        BY <1>10, <3>2
      <4>2. /\ out[i].offset * 8 + out[i].size + (left + rest) = total
            /\ out[i].more
        BY <1>1, <1>2, <1>4, <3>2, <4>1 DEF EndsWhereRestBegins, Remaining, total
      <4>3. out[i].offset \in Nat /\ out[i].size \in Nat
        BY <1>10, <3>2 DEF Piece
      <4>4. out[i].offset * 8 + out[i].size = offset * 8
        <5> DEFINE o == out[i].offset
                   n == out[i].size
        <5>1. o \in Nat /\ n \in Nat /\ o * 8 + n + (left + rest) = total
          BY <4>2, <4>3
        <5>2. left \in Nat /\ rest \in Nat /\ offset \in Nat
          BY <1>1
        <5> HIDE DEF o, n
        <5>3. o * 8 + n = offset * 8
          BY <1>6, <5>1, <5>2
        <5>4. QED
          BY <5>3 DEF o, n
      <4>5. QED
        BY <1>10, <1>11, <3>2, <4>2, <4>4
    <3>3. QED
      BY <1>10, <3>1, <3>2
  <2>4. QED
    BY <1>3, <2>1, <2>2, <2>3 DEF Contiguous
<1>14. PartsAligned'
  <2>1. part = 1 => (left - size) % 8 = 0
    BY <1>1, <1>2, <1>4 DEF PartsAligned
  <2>2. packet.more => ((left - size) + rest) % 8 = 0
    BY <1>1, <1>2, <1>4 DEF PartsAligned
  <2>3. part = 2 => rest = 0
    BY <1>4 DEF PartsAligned
  <2>4. QED
    BY <1>2, <1>3, <2>1, <2>2, <2>3 DEF PartsAligned
<1>15. Remaining' = (left - size) + rest /\ Remaining' \in Nat
  BY <1>1, <1>2, <1>3 DEF Remaining
<1>16. total' = total
  BY <1>3, <1>5 DEF total
<1>17. OffsetFollows'
  <2>1. Remaining' > 0 => offset' * 8 = offset * 8 + size
    BY <1>1, <1>2, <1>8, <1>15
  <2>2. Remaining' > 0 => offset' * 8 + Remaining' = total
    BY <1>1, <1>2, <1>6, <1>15, <2>1
  <2>3. Remaining' <= PayloadSize(packet)
    BY <1>1, <1>2, <1>6, <1>15
  <2>4. QED
    BY <1>3, <1>5, <2>2, <2>3 DEF OffsetFollows, total
<1>18. EndsWhereRestBegins'
  <2>1. out' # <<>>
    BY <1>10
  <2>2. piece.offset * 8 + piece.size + Remaining' = total
    BY <1>1, <1>2, <1>6, <1>11, <1>15
  <2>3. piece.more <=> (Remaining' > 0 \/ packet.more)
    <3>1. (size < left \/ rest > 0) <=> Remaining' > 0
      BY <1>1, <1>2, <1>15
    <3>2. (size < left \/ MoreAfterPart) <=> (size < left \/ rest > 0 \/ packet.more)
      BY <1>7 DEF MoreAfterPart
    <3>3. QED
      BY <1>11, <3>1, <3>2, Zenon
  <2>4. out'[Len(out')] = piece
    BY <1>10
  <2>5. QED
    BY <1>3, <1>5, <2>1, <2>2, <2>3, <2>4 DEF EndsWhereRestBegins, total
<1>19. QED
  BY <1>3, <1>4, <1>5, <1>13, <1>14, <1>17, <1>18 DEF FragmentInv, Fragmenting

\* The fragments of a packet start where its payload does.
LEMMA StartFragmentsStep == TypeOK /\ FragmentInv /\ StartFragments => FragmentInv'
<1> SUFFICES ASSUME TypeOK, FragmentInv, StartFragments PROVE FragmentInv'
  OBVIOUS
<1> DEFINE first == FirstPartSize(packet)
<1>1. /\ packet.offset \in Nat /\ packet.more \in BOOLEAN /\ PayloadSize(packet) \in Nat
      /\ first \in Nat /\ first <= PayloadSize(packet) /\ first % 8 = 0
  BY FirstPartAligned DEF TypeOK, IPv4Packet
<1>2. /\ out = <<>> /\ out' = <<>> /\ step' = "part"
      /\ TranslatedSize(packet) > mtu6
      /\ packet.more => PayloadSize(packet) % 8 = 0
      /\ offset' = packet.offset
      /\ UNCHANGED <<mtu6, mtu4, packet, reported>>
  BY <1>1 DEF StartFragments, FragmentInv, Unsendable, config
<1>3. \/ part' = 1 /\ left' = first /\ rest' = PayloadSize(packet) - first
      \/ part' = 2 /\ left' = PayloadSize(packet) /\ rest' = 0
  BY DEF StartFragments
<1> HIDE DEF first
<1>4. PayloadSize(packet)' = PayloadSize(packet) /\ TranslatedSize(packet)' = TranslatedSize(packet)
  BY <1>2 DEF PayloadSize, TranslatedSize, IsFragment
<1>5. Remaining' = PayloadSize(packet)
  BY <1>1, <1>3 DEF Remaining
<1>6. Contiguous'
  BY <1>2 DEF Contiguous
<1>7. PartsAligned'
  <2>1. part' = 1 => left' % 8 = 0
    BY <1>1, <1>3
  <2>2. part' = 2 => rest' = 0
    BY <1>3
  <2>3. left' + rest' = PayloadSize(packet)
    BY <1>5 DEF Remaining
  <2>4. QED
    BY <1>2, <2>1, <2>2, <2>3 DEF PartsAligned
<1>8. OffsetFollows'
  BY <1>1, <1>2, <1>4, <1>5 DEF OffsetFollows
<1>9. EndsWhereRestBegins'
  BY <1>2, <1>4, <1>5 DEF EndsWhereRestBegins
<1>10. QED
  BY <1>2, <1>4, <1>6, <1>7, <1>8, <1>9 DEF FragmentInv, Fragmenting

\* Steps of the loop that send nothing.  In particular the check of a part's
\* size never fails: both parts are cut at multiples of 8 bytes.
LEMMA QuietStep ==
  ASSUME TypeOK, FragmentInv, CheckPart \/ GiveUp \/ NextPart \/ FragmentsDone
  PROVE  FragmentInv'
<1>1. /\ left \in Nat /\ rest \in Nat /\ offset \in Nat /\ part \in {1, 2}
      /\ packet.more \in BOOLEAN
  BY DEF TypeOK, IPv4Packet
<1>2. step \in Fragmenting
  BY DEF CheckPart, GiveUp, NextPart, FragmentsDone, Fragmenting
<1>3. /\ TranslatedSize(packet) > mtu6
      /\ Contiguous /\ PartsAligned /\ OffsetFollows /\ EndsWhereRestBegins
  BY <1>2 DEF FragmentInv
<1>4. UNCHANGED <<mtu6, mtu4, packet, offset, out, reported>>
  BY DEF CheckPart, GiveUp, NextPart, FragmentsDone, config, loop
<1>5. Remaining' = Remaining
  BY <1>1 DEF CheckPart, GiveUp, NextPart, FragmentsDone, Remaining, loop
<1>6. PayloadSize(packet)' = PayloadSize(packet) /\ TranslatedSize(packet)' = TranslatedSize(packet)
  BY <1>4 DEF PayloadSize, TranslatedSize, IsFragment
<1>7. Contiguous'
  BY <1>3, <1>4 DEF Contiguous
<1>8. PartsAligned'
  <2>1. CASE NextPart
    <3>1. part' = 2 /\ rest' = 0 /\ left' = rest /\ left = 0
      BY <2>1 DEF NextPart
    <3>2. left' + rest' = left + rest
      BY <1>1, <3>1
    <3>3. QED
      BY <1>3, <1>4, <3>1, <3>2 DEF PartsAligned
  <2>2. CASE CheckPart \/ GiveUp \/ FragmentsDone
    BY <1>3, <2>2 DEF CheckPart, GiveUp, FragmentsDone, PartsAligned, loop
  <2>3. QED
    BY <2>1, <2>2
<1>9. OffsetFollows'
  BY <1>3, <1>4, <1>5, <1>6 DEF OffsetFollows
<1>10. EndsWhereRestBegins'
  BY <1>3, <1>4, <1>5, <1>6 DEF EndsWhereRestBegins
<1>11. /\ step' \in {"part", "fragment", "fragmented", "aborted"}
       /\ step' = "fragmented" => Remaining' = 0
       /\ step' = "aborted" => Remaining' > 0 /\ offset' > LAST_OFFSET
  <2>1. CASE CheckPart
    <3>1. part = 2 => left + rest = left
      BY <1>1, <1>3 DEF PartsAligned
    <3>2. MoreAfterPart => left % 8 = 0
      BY <1>1, <1>3, <3>1 DEF MoreAfterPart, PartsAligned
    <3>3. QED
      BY <2>1, <3>2 DEF CheckPart
  <2>2. CASE GiveUp
    BY <1>1, <1>4, <1>5, <2>2 DEF GiveUp, OffsetTooLarge, Remaining
  <2>3. CASE NextPart
    BY <2>3 DEF NextPart
  <2>4. CASE FragmentsDone
    BY <1>1, <1>5, <2>4 DEF FragmentsDone, Remaining
  <2>5. QED
    BY <2>1, <2>2, <2>3, <2>4
<1>12. QED
  BY <1>3, <1>4, <1>6, <1>7, <1>8, <1>9, <1>10, <1>11 DEF FragmentInv, Fragmenting

\* The error message passes the size check, and the MTU in it does not wrap.
LEMMA ErrorGoesOut ==
  ASSUME TypeOK, FragmentationNeeded
  PROVE  reported' = mtu6 - 28
<1>1. ErrorSize(packet) <= mtu4
  BY ConfigBounds DEF ErrorSize, TypeOK, IPv4Packet
<1>2. NeededMtu(mtu6) = mtu6 - 28
  BY ConfigBounds DEF NeededMtu
<1>3. QED
  BY <1>1, <1>2 DEF FragmentationNeeded

LEMMA FragmentStep == TypeOK /\ FragmentInv /\ [Next]_vars => FragmentInv'
<1> SUFFICES ASSUME TypeOK, FragmentInv, [Next]_vars PROVE FragmentInv'
  OBVIOUS
<1> USE DEF Fragmenting
<1>1. CASE Receive
  BY <1>1 DEF Receive, FragmentInv
<1>2. CASE Drop
  BY <1>2 DEF Drop, FragmentInv
<1>3. CASE SendWhole
  <2> DEFINE piece == [offset |-> packet.offset, size |-> PayloadSize(packet),
                       more |-> packet.more]
  <2>1. out' = Append(out, piece) /\ out = <<>> /\ packet' = packet /\ step' = "sent"
    BY <1>3, WholeSent DEF SendWhole, FragmentInv
  <2>2. piece' = piece
    BY <2>1 DEF PayloadSize
  <2> HIDE DEF piece
  <2>3. out' = <<piece>>
    BY <2>1
  <2>4. QED
    BY <2>1, <2>2, <2>3 DEF FragmentInv, piece
<1>4. CASE FragmentationNeeded
  <2>1. TranslatedSize(packet)' = TranslatedSize(packet)
    BY <1>4 DEF FragmentationNeeded, TranslatedSize, IsFragment, PayloadSize
  <2>2. QED
    BY <1>4, <2>1, ErrorGoesOut DEF FragmentationNeeded, FragmentInv, config
<1>5. CASE StartFragments
  BY <1>5, StartFragmentsStep
<1>6. CASE CheckPart \/ GiveUp \/ NextPart \/ FragmentsDone
  BY <1>6, QuietStep
<1>7. CASE SendFragment
  BY <1>7, SendFragmentStep
<1>8. CASE Finish
  BY <1>8 DEF Finish, FragmentInv
<1>9. CASE UNCHANGED vars
  BY <1>9 DEF vars, config, loop, FragmentInv, Contiguous, PartsAligned, OffsetFollows,
              EndsWhereRestBegins, Remaining, TranslatedSize, IsFragment, PayloadSize
<1>10. QED
  BY <1>1, <1>2, <1>3, <1>4, <1>5, <1>6, <1>7, <1>8, <1>9 DEF Next

\* The inductive invariant holds in every reachable state.
THEOREM SafetyInvariant == Spec => [](TypeOK /\ FragmentInv)
<1>1. Init => TypeOK /\ FragmentInv
  BY InitSafety
<1>2. (TypeOK /\ FragmentInv) /\ [Next]_vars => (TypeOK /\ FragmentInv)'
  BY TypeStep, FragmentStep
<1>3. QED
  BY <1>1, <1>2, PTL DEF Spec

-----------------------------------------------------------------------------
\* Whatever is sent for a packet puts together to exactly its payload.
THEOREM PayloadReassembles == Spec => []Reassembles
<1>1. TypeOK /\ FragmentInv => Reassembles
  <2> SUFFICES ASSUME TypeOK, FragmentInv, step \in {"sent", "fragmented"} PROVE
                 /\ Contiguous
                 /\ out # <<>>
                 /\ LET last == out[Len(out)] IN
                      /\ last.offset * 8 + last.size = packet.offset * 8 + PayloadSize(packet)
                      /\ last.more = packet.more
    BY DEF Reassembles
  <2>1. /\ packet.offset \in Nat /\ packet.offset <= LAST_OFFSET
        /\ packet.more \in BOOLEAN /\ PayloadSize(packet) \in Nat /\ out \in Seq(Piece)
    BY FirstPartAligned DEF TypeOK, IPv4Packet
  <2>2. CASE step = "sent"
    <3>1. out = <<[offset |-> packet.offset, size |-> PayloadSize(packet),
                   more |-> packet.more]>>
      BY <2>2 DEF FragmentInv
    <3>2. /\ Len(out) = 1 /\ out # <<>>
          /\ out[1].offset = packet.offset
          /\ out[1].size = PayloadSize(packet)
          /\ out[1].more = packet.more
      BY <3>1
    <3>3. Contiguous
      BY <2>1, <3>2 DEF Contiguous
    <3>4. QED
      BY <3>2, <3>3
  <2>3. CASE step = "fragmented"
    <3>1. Contiguous /\ EndsWhereRestBegins /\ Remaining = 0 /\ TranslatedSize(packet) > mtu6
      BY <2>3 DEF FragmentInv, Fragmenting
    <3>2. PayloadSize(packet) > 0
      BY <2>1, <3>1, ConfigBounds DEF TranslatedSize
    <3>3. out # <<>>
      BY <3>1, <3>2 DEF EndsWhereRestBegins
    <3>4. Len(out) \in Nat /\ Len(out) > 0
      BY <2>1, <3>3
    <3>5. out[Len(out)] \in Piece
      BY <2>1, <3>4
    <3> DEFINE last == out[Len(out)]
    <3>6. last.offset \in Nat /\ last.size \in Nat /\ last.more \in BOOLEAN
      BY <3>5 DEF Piece
    <3>7. last.offset * 8 + last.size + 0 = packet.offset * 8 + PayloadSize(packet)
          /\ (last.more <=> (0 > 0 \/ packet.more))
      BY <3>1, <3>3 DEF EndsWhereRestBegins
    <3> HIDE DEF last
    <3>8. last.offset * 8 + last.size = packet.offset * 8 + PayloadSize(packet)
      BY <3>6, <3>7
    <3>9. last.more = packet.more
      BY <2>1, <3>6, <3>7
    <3>10. QED
      BY <3>1, <3>3, <3>8, <3>9 DEF last
  <2>4. QED
    BY <2>2, <2>3
<1>2. QED
  BY <1>1, SafetyInvariant, PTL

\* Only a packet that reaches beyond the end of its datagram is given up.
THEOREM AbortsOnlyBeyondDatagram == Spec => []GivesUpOnlyBeyondDatagram
<1>1. TypeOK /\ FragmentInv => GivesUpOnlyBeyondDatagram
  <2> SUFFICES ASSUME TypeOK, FragmentInv, step = "aborted"
               PROVE  packet.offset * 8 + PayloadSize(packet) > 8 * (LAST_OFFSET + 1)
    BY DEF GivesUpOnlyBeyondDatagram
  <2>1. Remaining > 0 /\ offset > LAST_OFFSET /\ OffsetFollows
    BY DEF FragmentInv, Fragmenting
  <2>2. /\ left \in Nat /\ rest \in Nat /\ offset \in Nat
        /\ packet.offset \in Nat /\ PayloadSize(packet) \in Nat
    BY FirstPartAligned DEF TypeOK, IPv4Packet
  <2>3. QED
    BY <2>1, <2>2 DEF OffsetFollows, Remaining
<1>2. QED
  BY <1>1, SafetyInvariant, PTL

\* One Fragmentation Needed message settles the source's path MTU.
THEOREM ReportedMtuSuffices == Spec => []ReportedMtuWorks
<1>1. TypeOK /\ FragmentInv => ReportedMtuWorks
  <2> SUFFICES ASSUME TypeOK, FragmentInv, step = "bounced"
               PROVE  /\ reported # 0
                      /\ reported < packet.size
                      /\ \A size \in packet.header..reported :
                           TranslatedSize([packet EXCEPT !.size = size]) <= mtu6
    BY DEF ReportedMtuWorks
  <2>1. /\ packet.size \in Nat /\ packet.header \in Nat /\ packet.header >= 20
        /\ packet.offset \in Nat /\ packet.more \in BOOLEAN /\ packet \in IPv4Packet
    BY DEF TypeOK, IPv4Packet
  <2>2. reported = mtu6 - 28 /\ TranslatedSize(packet) > mtu6
    BY DEF FragmentInv
  <2>3. reported # 0
    BY <2>2, ConfigBounds
  <2>4. reported < packet.size
    BY <2>1, <2>2, ConfigBounds DEF TranslatedSize, PayloadSize
  <2>5. ASSUME NEW size \in packet.header..reported
        PROVE  TranslatedSize([packet EXCEPT !.size = size]) <= mtu6
    <3> DEFINE p == [packet EXCEPT !.size = size]
    <3>1. p.size = size /\ p.header = packet.header
      BY <2>1 DEF IPv4Packet
    <3> HIDE DEF p
    <3>2. size \in Int /\ size <= reported
      BY <2>1, <2>2, ConfigBounds
    <3>3. TranslatedSize(p) <= 48 + (size - packet.header)
      BY <2>1, <3>1, <3>2 DEF TranslatedSize, PayloadSize
    <3>4. TranslatedSize(p) \in Int
      BY <2>1, <3>1, <3>2 DEF TranslatedSize, PayloadSize
    <3>5. QED
      BY <2>1, <2>2, <3>2, <3>3, <3>4, ConfigBounds DEF p
  <2>6. QED
    BY <2>3, <2>4, <2>5
<1>2. QED
  BY <1>1, SafetyInvariant, PTL

\* The loop that sends fragments ends, and makes no more of them than needed.
THEOREM FragmentsAreNeeded == Spec => FragmentsAreFull
<1>1. ASSUME TypeOK, SendFragment
      PROVE  left' < left /\ (left' > 0 => 48 + (left - left') + 8 > mtu6)
  <2> DEFINE max == MaxFragmentPayload(mtu6)
  <2>1. mtu6 \in Nat /\ mtu6 >= 48 + 8
    BY <1>1, ConfigBounds
  <2>2. max \in Nat /\ max > 0 /\ 48 + max + 8 > mtu6
    BY <2>1 DEF MaxFragmentPayload
  <2>3. left \in Nat /\ left > 0 /\ left' = left - FragmentSize(max)
    BY <1>1 DEF TypeOK, SendFragment
  <2> HIDE DEF max
  <2> QED
    BY <2>1, <2>2, <2>3 DEF FragmentSize
<1>2. TypeOK /\ FragmentInv /\ [Next]_vars
      => [SendFragment => left' < left /\ (left' > 0 => 48 + (left - left') + 8 > mtu6)]_vars
  BY <1>1
<1> QED
  BY <1>2, SafetyInvariant, PTL DEF Spec, FragmentsAreFull
=============================================================================
