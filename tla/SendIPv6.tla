-------------------------------- MODULE SendIPv6 --------------------------------
(****************************************************************************)
(* What leaves the translator for one IPv4 packet whose headers and         *)
(* addresses have been translated (xlat_4to6.c): one IPv6 packet, a chain   *)
(* of IPv6 fragments, an ICMPv4 Fragmentation Needed back to the source     *)
(* (router_ipv4.c), or nothing.  The last hurdle of everything is the size  *)
(* check of xlat_io.c, which drops a packet without a word.                 *)
(*                                                                          *)
(* Payloads are sizes.  ICMP error messages, whose translation cuts them to *)
(* 1280 bytes, are left out: of the ICMP messages only those that are       *)
(* carried over byte for byte (echo) are sent here.                         *)
(****************************************************************************)
EXTENDS Integers, Sequences

CONSTANTS
    Packets,     \* the IPv4 packets that may arrive
    Mtus6,       \* the values of translator.ipv6.outbound_mtu
    Mtus4        \* the values of translator.ipv4.outbound_mtu

MIN_MTU_IPV4 == 96
MIN_MTU_IPV6 == 1280
MAX_MTU == 65515
LAST_OFFSET == 8191     \* fragment offsets have 13 bits, in units of 8 bytes

\* size: the whole packet; header: its IPv4 header with the options;
\* checksum: is the UDP checksum present?
IPv4Packet ==
    {p \in [size : Nat, header : Nat, df : BOOLEAN, offset : Nat, more : BOOLEAN,
            proto : {"tcp", "udp", "icmp", "other"}, checksum : BOOLEAN] :
        /\ 20 <= p.header /\ p.header <= 60 /\ p.header % 4 = 0
        /\ p.header <= p.size /\ p.size <= 65535
        /\ p.offset <= LAST_OFFSET}

ASSUME SendIPv6Assumption ==
    /\ \A p \in Packets : p \in IPv4Packet
    /\ \A m \in Mtus6 : m \in Nat /\ MIN_MTU_IPV6 <= m /\ m <= MAX_MTU
    /\ \A m \in Mtus4 : m \in Nat /\ MIN_MTU_IPV4 <= m /\ m <= MAX_MTU

VARIABLES
    mtu6, mtu4,     \* the configuration
    step,           \* where the thread is
    packet,         \* in_packet_buffer
    rest,           \* payload2_size, while the first part is being sent
    left,           \* remaining_payload_part_size
    offset,         \* fragment_offset_8byte_chunks
    part,           \* which part of the payload is being sent
    out,            \* the IPv6 packets sent for this packet, in order
    reported        \* the MTU in the Fragmentation Needed that was sent, or 0

config == <<mtu6, mtu4>>
loop == <<rest, left, offset, part>>
vars == <<config, step, packet, loop, out, reported>>

-----------------------------------------------------------------------------
(* Sizes.                                                                   *)

PayloadSize(p) == p.size - p.header

IsFragment(p) == p.offset > 0 \/ p.more

\* The size of payload 1: a copy of the transport header whose checksum is
\* recalculated, a multiple of 8 bytes.  A TCP header of 20 to 23 bytes is
\* the whole payload and is sent as payload 2.
FirstPartSize(p) ==
    IF p.offset > 0 THEN 0
    ELSE IF p.proto = "tcp" /\ PayloadSize(p) >= 24 THEN 24
    ELSE IF p.proto \in {"udp", "icmp"} /\ PayloadSize(p) >= 8 THEN 8
    ELSE 0

\* total_packet_size of _appropriately_send_ipv6_packet().
TranslatedSize(p) == 40 + (IF IsFragment(p) THEN 8 ELSE 0) + PayloadSize(p)

\* Variation: the fragment header is forgotten.
MaxFragmentPayloadNoHeader(mtu) == (mtu - 40) - ((mtu - 40) % 8)

MaxFragmentPayload(mtu) == (mtu - 48) - ((mtu - 48) % 8)

\* Variation: the fragment header a resent packet may need is forgotten.
NeededMtuNoFragmentHeader(mtu) == (mtu - 20) % 65536

\* The MTU put into the Fragmentation Needed message, a uint16_t.
NeededMtu(mtu) == (mtu - 28) % 65536

\* The size of an ICMPv4 error message of _send_icmpv4_to_in_ipv4_packet_src().
ErrorSize(p) == 28 + (IF p.size < 68 THEN p.size ELSE 68)

-----------------------------------------------------------------------------
NoPacket == [size |-> 20, header |-> 20, df |-> FALSE, offset |-> 0, more |-> FALSE,
             proto |-> "other", checksum |-> TRUE]

Init ==
    /\ mtu6 \in Mtus6
    /\ mtu4 \in Mtus4
    /\ step = "idle"
    /\ packet = NoPacket
    /\ rest = 0 /\ left = 0 /\ offset = 0 /\ part = 1
    /\ out = <<>>
    /\ reported = 0

\* A packet is read and its header translated.
Receive ==
    /\ step = "idle"
    /\ packet' \in Packets
    /\ step' = "decide"
    /\ UNCHANGED <<config, loop, out, reported>>

\* Packets dropped before their size matters: a fragment that is not the last
\* of its datagram and not a multiple of 8 bytes; a fragmented ICMP message,
\* or one without a full header; UDP without a checksum.
Unsendable(p) ==
    \/ p.more /\ PayloadSize(p) % 8 # 0
    \/ p.proto = "icmp" /\ (IsFragment(p) \/ PayloadSize(p) < 8)
    \/ p.proto = "udp" /\ p.offset = 0 /\ PayloadSize(p) >= 8 /\ ~p.checksum

Drop ==
    /\ step = "decide"
    /\ Unsendable(packet)
    /\ step' = "dropped"
    /\ UNCHANGED <<config, packet, loop, out, reported>>

\* xlat_io__send_ipv6_packet(): a packet beyond the MTU is dropped silently.
Sent(p, size) == IF size <= mtu6 THEN Append(out, p) ELSE out

SendWhole ==
    /\ step = "decide"
    /\ ~Unsendable(packet)
    /\ TranslatedSize(packet) <= mtu6
    /\ out' = Sent([offset |-> packet.offset, size |-> PayloadSize(packet),
                    more |-> packet.more], TranslatedSize(packet))
    /\ step' = "sent"
    /\ UNCHANGED <<config, packet, loop, reported>>

\* router_ipv4__send_fragmentation_needed_to_in_ipv4_packet_src(); the error
\* message itself passes the size check of xlat_io__send_ipv4_packet().
FragmentationNeeded ==
    /\ step = "decide"
    /\ ~Unsendable(packet)
    /\ TranslatedSize(packet) > mtu6
    /\ packet.df
    /\ reported' = IF ErrorSize(packet) <= mtu4 THEN NeededMtu(mtu6) ELSE 0
    /\ step' = "bounced"
    /\ UNCHANGED <<config, packet, loop, out>>

\* _fragment_and_send_ipv6_packet(), up to its first part.  A first part that
\* is not a multiple of 8 bytes "should never happen".
StartFragments ==
    /\ step = "decide"
    /\ ~Unsendable(packet)
    /\ TranslatedSize(packet) > mtu6
    /\ ~packet.df
    /\ LET first == FirstPartSize(packet) IN
         IF first > 0
         THEN part' = 1 /\ left' = first /\ rest' = PayloadSize(packet) - first
         ELSE part' = 2 /\ left' = PayloadSize(packet) /\ rest' = 0
    /\ offset' = packet.offset
    /\ step' = IF FirstPartSize(packet) % 8 = 0 THEN "part" ELSE "aborted"
    /\ UNCHANGED <<config, packet, out, reported>>

\* more_fragments_after_this_part
MoreAfterPart == (part = 1 /\ rest > 0) \/ packet.more

\* The check at the top of _fragment_and_send_ipv6_packet_part().
CheckPart ==
    /\ step = "part"
    /\ step' = IF MoreAfterPart /\ left % 8 # 0 THEN "aborted" ELSE "fragment"
    /\ UNCHANGED <<config, packet, loop, out, reported>>

MoreAfterFragment(max) == left > max \/ MoreAfterPart

\* Variation: the limit leaves room for the whole fragment behind the offset.
OffsetTooLargeForFragment == offset + MaxFragmentPayload(mtu6) \div 8 > LAST_OFFSET

OffsetTooLarge == offset > LAST_OFFSET

FragmentSize(max) == IF left < max THEN left ELSE max

\* One iteration of its loop.
SendFragment ==
    /\ step = "fragment"
    /\ left > 0
    /\ ~OffsetTooLarge
    /\ LET max == MaxFragmentPayload(mtu6)
           size == FragmentSize(max)
       IN  /\ out' = Sent([offset |-> offset, size |-> size,
                           more |-> MoreAfterFragment(max)], 48 + size)
           /\ left' = left - size
           /\ offset' = offset + size \div 8
    /\ UNCHANGED <<config, step, packet, rest, part, reported>>

\* The fragment would start beyond what its header can say: the rest of the
\* packet is given up, the fragments already sent are not called back.
GiveUp ==
    /\ step = "fragment"
    /\ left > 0
    /\ OffsetTooLarge
    /\ step' = "aborted"
    /\ UNCHANGED <<config, packet, loop, out, reported>>

NextPart ==
    /\ step = "fragment"
    /\ left = 0
    /\ part = 1 /\ rest > 0
    /\ part' = 2 /\ left' = rest /\ rest' = 0
    /\ step' = "part"
    /\ UNCHANGED <<config, packet, offset, out, reported>>

FragmentsDone ==
    /\ step = "fragment"
    /\ left = 0
    /\ rest = 0
    /\ step' = "fragmented"
    /\ UNCHANGED <<config, packet, loop, out, reported>>

\* The thread goes back to read(); what it kept on its stack is gone.
Finished == {"dropped", "sent", "bounced", "aborted", "fragmented"}

Finish ==
    /\ step \in Finished
    /\ step' = "idle"
    /\ packet' = NoPacket
    /\ rest' = 0 /\ left' = 0 /\ offset' = 0 /\ part' = 1
    /\ out' = <<>>
    /\ reported' = 0
    /\ UNCHANGED config

Next ==
    \/ Receive \/ Drop \/ SendWhole \/ FragmentationNeeded
    \/ StartFragments \/ CheckPart \/ SendFragment \/ GiveUp \/ NextPart \/ FragmentsDone
    \/ Finish

Spec == Init /\ [][Next]_vars

-----------------------------------------------------------------------------
Piece == [offset : Nat, size : Nat, more : BOOLEAN]

\* Every variable keeps its type.
TypeOK ==
    /\ mtu6 \in Mtus6
    /\ mtu4 \in Mtus4
    /\ step \in {"idle", "decide", "part", "fragment"} \cup Finished
    /\ packet \in IPv4Packet
    /\ rest \in Nat
    /\ left \in Nat
    /\ offset \in Nat
    /\ part \in {1, 2}
    /\ out \in Seq(Piece)
    /\ reported \in Nat

\* The pieces sent so far follow each other without a gap or an overlap from
\* the packet's own offset on, all but the last say that more follow, and
\* every offset fits into its 13 bits.
Contiguous ==
    /\ \A i \in 1..Len(out) : out[i].offset <= LAST_OFFSET
    /\ out # <<>> => out[1].offset = packet.offset
    /\ \A i \in 1..(Len(out) - 1) :
         /\ out[i + 1].offset * 8 = out[i].offset * 8 + out[i].size
         /\ out[i].more

\* A receiver that puts the pieces together gets back the whole payload of
\* the IPv4 packet: none is dropped by the size check, none is repeated, and
\* the last one tells whether other fragments of the datagram follow.
Reassembles ==
    step \in {"sent", "fragmented"} =>
        /\ Contiguous
        /\ out # <<>>
        /\ LET last == out[Len(out)] IN
             /\ last.offset * 8 + last.size = packet.offset * 8 + PayloadSize(packet)
             /\ last.more = packet.more

\* A packet is given up half sent only if it reaches beyond the 65536 bytes a
\* datagram's fragments can address; in particular the check of the parts'
\* sizes never fails.
GivesUpOnlyBeyondDatagram ==
    step = "aborted" => packet.offset * 8 + PayloadSize(packet) > 8 * (LAST_OFFSET + 1)

\* A source told that its packet is too big really hears it (the ICMPv4 error
\* message fits into every MTU the configuration accepts), is told a size
\* below the one it used, and passes with whatever it sends up to that size:
\* path MTU discovery ends with the first message.
ReportedMtuWorks ==
    step = "bounced" =>
        /\ reported # 0
        /\ reported < packet.size
        /\ \A size \in packet.header..reported :
             TranslatedSize([packet EXCEPT !.size = size]) <= mtu6

\* Fragmenting ends, for any MTU and packet: every round of the loop sends a
\* part of what is left, and as much as the units of 8 bytes allow, so that
\* no packet becomes more fragments than it must.
FragmentsAreFull ==
    [][SendFragment =>
         /\ left' < left
         /\ left' > 0 => 48 + (left - left') + 8 > mtu6]_vars

-----------------------------------------------------------------------------
(* The inductive invariant.                                                 *)

Fragmenting == {"part", "fragment", "aborted", "fragmented"}

\* The bytes of the payload that are still to be sent.
Remaining == left + rest

\* The two parts of the payload are cut at multiples of 8 bytes.
PartsAligned ==
    /\ part = 1 => left % 8 = 0
    /\ part = 2 => rest = 0
    /\ packet.more => (left + rest) % 8 = 0

\* offset says where the next piece belongs, as long as there is one.
OffsetFollows ==
    /\ Remaining > 0 => offset * 8 + Remaining = packet.offset * 8 + PayloadSize(packet)
    /\ Remaining <= PayloadSize(packet)

\* Where the pieces sent so far end, and what the last of them announces.
EndsWhereRestBegins ==
    IF out = <<>>
    THEN Remaining = PayloadSize(packet) /\ offset = packet.offset
    ELSE LET last == out[Len(out)] IN
           /\ last.offset * 8 + last.size + Remaining
                = packet.offset * 8 + PayloadSize(packet)
           /\ last.more <=> (Remaining > 0 \/ packet.more)

FragmentInv ==
    /\ step \in {"idle", "decide", "bounced"} => out = <<>>
    /\ step \in Fragmenting =>
         /\ TranslatedSize(packet) > mtu6
         /\ Contiguous
         /\ PartsAligned
         /\ OffsetFollows
         /\ EndsWhereRestBegins
    /\ step = "fragmented" => Remaining = 0
    /\ step = "aborted" => Remaining > 0 /\ offset > LAST_OFFSET
    /\ step = "bounced" => TranslatedSize(packet) > mtu6 /\ reported = mtu6 - 28
    /\ step = "sent" => out = <<[offset |-> packet.offset, size |-> PayloadSize(packet),
                                 more |-> packet.more]>>
=============================================================================
