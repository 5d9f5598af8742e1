-------------------------------- MODULE Integrity --------------------------------
(****************************************************************************)
(* Datagrams that cross translators and may be damaged on their way.  The   *)
(* checksums of TCP and UDP are adapted to the new addresses, those of ICMP *)
(* are verified and computed anew (xlat_4to6.c, xlat_6to4.c and the modules *)
(* for ICMP); the host at the end verifies them as the RFCs say.            *)
(*                                                                          *)
(* A datagram is a sequence of bytes: first the two bytes of its checksum,  *)
(* then, in ICMP, its type.  IPv4 addresses have ADDRESS bytes, an IPv6     *)
(* address is one of them behind the prefix.                                *)
(****************************************************************************)
EXTENDS Checksums

CONSTANTS
    Addresses4,     \* IPv4 addresses
    Prefix,         \* the prefix of the translators, an even number of bytes
    Data,           \* what hosts send behind the checksum
    MaxCrossings    \* translators a datagram crosses

ADDRESS == 2
START == 4          \* the size of the first part of an ICMP message
Bytes == 0..(BYTE - 1)

ASSUME IntegrityAssumption ==
    /\ BYTE >= 4
    /\ Prefix \in Seq(Bytes) /\ Len(Prefix) % 2 = 0
    /\ Addresses4 \subseteq [1..ADDRESS -> Bytes]
    /\ Data \subseteq Seq(Bytes)
    \* A byte at least, of which an ICMP message has its type, and sizes have two bytes.
    /\ \A d \in Data : 1 <= Len(d) /\ 2 + Len(d) < WORD
    /\ MaxCrossings \in Nat
    \* No sum reaches 32 bits, as no sum of at most 65535 bytes does.
    /\ \A d \in Data : (WORD - 1) * (Len(d) + 2 * (Len(Prefix) + ADDRESS) + 13) < 2 * DOUBLE

VARIABLES
    datagram,   \* the packet on its way
    sent,       \* the packet as it was sent
    damaged,    \* has it been damaged?
    crossings,  \* the translators it has crossed
    fate        \* "none", "travels", "dropped" or "arrived"

integrityVars == <<datagram, sent, damaged, crossings, fate>>

Protocols == {"tcp", "udp", "icmp"}
NoPacket == [family |-> 4, proto |-> "tcp", source |-> <<>>, destination |-> <<>>, bytes |-> <<>>]

ProtocolNumber(p) == CASE p.proto = "tcp" -> 1 [] p.proto = "udp" -> 2 [] p.proto = "icmp" -> 3

PseudoHeader(p) ==
    IF p.family = 6
    THEN PseudoHeader6(p.source, p.destination, ProtocolNumber(p), Len(p.bytes))
    ELSE IF p.proto = "icmp" THEN <<>>
    ELSE PseudoHeader4(p.source, p.destination, ProtocolNumber(p), Len(p.bytes))

-----------------------------------------------------------------------------
(* What hosts do, by the arithmetic of RFC 1071 and in network byte order.  *)

\* Bytes at odd places are the upper halves of words.
Total(bytes) ==
    LET total[i \in 0..Len(bytes)] ==
            IF i = 0 THEN 0
            ELSE total[i - 1] + bytes[i] * (IF i % 2 = 1 THEN BYTE ELSE 1)
    IN  total[Len(bytes)]

HasNoChecksum(p) == p.proto = "udp" /\ p.bytes[1] = 0 /\ p.bytes[2] = 0

\* The sum of everything, the checksum included, is zero in ones' complement.
IsRight(p) ==
    LET total == Total(p.bytes) + Total(PseudoHeader(p)) IN
    ~HasNoChecksum(p) /\ total > 0 /\ total % (WORD - 1) = 0

\* UDP over IPv4 may go without a checksum.
Accepts(p) == IsRight(p) \/ (p.family = 4 /\ HasNoChecksum(p))

Hosts(family) ==
    IF family = 4 THEN Addresses4 ELSE {Prefix \o a : a \in Addresses4}

IntegrityInit ==
    /\ datagram = NoPacket
    /\ sent = NoPacket
    /\ damaged = FALSE
    /\ crossings = 0
    /\ fate = "none"

Send ==
    /\ fate = "none"
    /\ \E family \in {4, 6}, proto \in Protocols, data \in Data, sum \in [1..2 -> Bytes] :
         \E source, destination \in Hosts(family) :
           datagram' = [family |-> family, proto |-> proto, source |-> source,
                        destination |-> destination, bytes |-> sum \o data]
    /\ Accepts(datagram')
    /\ sent' = datagram'
    /\ fate' = "travels"
    /\ UNCHANGED <<damaged, crossings>>

\* One byte of the datagram or of its addresses is changed.
Damage ==
    /\ fate = "travels"
    /\ ~damaged
    /\ \E field \in {"source", "destination", "bytes"}, byte \in Bytes :
         \E i \in 1..Len(datagram[field]) :
           /\ datagram[field][i] # byte
           /\ datagram' = [datagram EXCEPT ![field][i] = byte]
    /\ damaged' = TRUE
    /\ UNCHANGED <<sent, crossings, fate>>

-----------------------------------------------------------------------------
(* What a translator does.                                                  *)

Embedded(address) == Prefix \o address
Extracted(address) == SubSeq(address, Len(Prefix) + 1, Len(address))
HasPrefix(address) == SubSeq(address, 1, Len(Prefix)) = Prefix

Translated(address) == IF datagram.family = 4 THEN Embedded(address) ELSE Extracted(address)

\* The packet with its new addresses.
Readdressed ==
    [family |-> 10 - datagram.family, proto |-> datagram.proto,
     source |-> Translated(datagram.source), destination |-> Translated(datagram.destination),
     bytes |-> datagram.bytes]

Checksum(p) == HostWord(p.bytes[1], p.bytes[2])

WithChecksum(bytes, sum) == BytesOf(sum) \o SubSeq(bytes, 3, Len(bytes))

\* Variation: the checksum that means "none" is sent.
UdpChecksumAsItIs(sum) == sum

\* A UDP checksum of zero is sent as its other representation.
UdpChecksum(sum) == IF sum = 0 THEN WORD - 1 ELSE sum

Adapted(p) ==
    LET sum == Recalculated(Checksum(datagram), datagram.source \o datagram.destination,
                            p.source \o p.destination)
    IN  WithChecksum(p.bytes, IF p.proto = "udp" THEN UdpChecksum(sum) ELSE sum)

\* Echo requests and replies have other types in the other family.
OtherType(type) == BYTE - 1 - type

\* message_start_64b, message_start_36b: the part that has been rewritten.
MessageStart(bytes) ==
    SubSeq(bytes, 1, IF Len(bytes) < START THEN Len(bytes) ELSE START)

ComputedAnew(p) ==
    LET message == <<0, 0, OtherType(p.bytes[3])>> \o SubSeq(p.bytes, 4, Len(p.bytes))
        start == MessageStart(message)
        end == SubSeq(message, Len(start) + 1, Len(message))
    IN  WithChecksum(message, Calculated(start, end, PseudoHeader(p)))

\* Variation: the pseudo header is taken to belong to ICMPv4 as well.
IcmpIsRightLikeUdp ==
    Calculated(datagram.bytes, <<>>,
               PseudoHeader([datagram EXCEPT !.proto = IF @ = "icmp" THEN "udp" ELSE @])) = 0

\* The checksum of an ICMP message is verified before it is replaced.
IcmpIsRight == Calculated(datagram.bytes, <<>>, PseudoHeader(datagram)) = 0

IsDropped ==
    \/ datagram.family = 6 /\ ~(HasPrefix(datagram.source) /\ HasPrefix(datagram.destination))
    \/ datagram.proto = "udp" /\ Checksum(datagram) = 0
    \/ datagram.proto = "icmp" /\ ~IcmpIsRight

Cross ==
    /\ fate = "travels"
    /\ crossings < MaxCrossings
    /\ ~IsDropped
    /\ datagram' = [Readdressed EXCEPT !.bytes =
                    IF datagram.proto = "icmp" THEN ComputedAnew(Readdressed)
                    ELSE Adapted(Readdressed)]
    /\ crossings' = crossings + 1
    /\ UNCHANGED <<sent, damaged, fate>>

Drop ==
    /\ fate = "travels"
    /\ crossings < MaxCrossings
    /\ IsDropped
    /\ fate' = "dropped"
    /\ UNCHANGED <<datagram, sent, damaged, crossings>>

Arrive ==
    /\ fate = "travels"
    /\ crossings = MaxCrossings
    /\ fate' = "arrived"
    /\ UNCHANGED <<datagram, sent, damaged, crossings>>

\* The next datagram.
Forget ==
    /\ fate \in {"dropped", "arrived"}
    /\ datagram' = NoPacket
    /\ sent' = NoPacket
    /\ damaged' = FALSE
    /\ crossings' = 0
    /\ fate' = "none"

IntegrityNext == Send \/ Damage \/ Cross \/ Drop \/ Arrive \/ Forget

IntegritySpec == IntegrityInit /\ [][IntegrityNext]_integrityVars

-----------------------------------------------------------------------------
\* What travels.
Packet ==
    [family : {4, 6}, proto : Protocols, source : Seq(Bytes), destination : Seq(Bytes),
     bytes : Seq(Bytes)]

\* Every variable keeps its type, and no translator changes the size of a datagram.
IntegrityTypeOK ==
    /\ datagram \in Packet
    /\ sent \in Packet
    /\ Len(datagram.bytes) = Len(sent.bytes)
    /\ damaged \in BOOLEAN
    /\ crossings \in 0..MaxCrossings
    /\ fate \in {"none", "travels", "dropped", "arrived"}

\* A datagram that was not damaged has a right checksum wherever it is,
\* however many translators have adapted it, and however often a sum was
\* zero or overflowed.
IntactStaysRight ==
    fate \in {"travels", "arrived"} /\ ~damaged =>
        IsRight(datagram) \/ (crossings = 0 /\ HasNoChecksum(datagram))

\* What was sent, as it should look after its crossings.
Content(p) == SubSeq(p.bytes, 3, Len(p.bytes))
Expected ==
    IF sent.proto = "icmp" /\ crossings % 2 = 1
    THEN [Content(sent) EXCEPT ![1] = OtherType(@)]
    ELSE Content(sent)

\* The IPv4 addresses, which those of IPv6 end with.
Ends(p) == LET End(a) == SubSeq(a, Len(a) - ADDRESS + 1, Len(a)) IN
    <<End(p.source), End(p.destination)>>

\* Translators neither make up for damage nor hide it: a host that receives a
\* datagram whose content was damaged, before or behind any translator, does
\* not accept it, nor does a host to which damage has led a TCP or UDP
\* datagram of others; unless it was sent without a checksum and crossed none.
DamageIsSeen ==
    /\ fate = "arrived" /\ damaged
    /\ Content(datagram) # Expected \/ (datagram.proto # "icmp" /\ Ends(datagram) # Ends(sent))
    => ~Accepts(datagram) \/ (crossings = 0 /\ HasNoChecksum(sent))

\* The translators' own check of ICMP messages does not lose good ones: only
\* what is damaged or has no checksum is dropped.
OnlyBadIsDropped == fate = "dropped" => damaged \/ HasNoChecksum(sent)
=============================================================================
