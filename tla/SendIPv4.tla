-------------------------------- MODULE SendIPv4 --------------------------------
(****************************************************************************)
(* What leaves the translator for one IPv6 packet whose headers and         *)
(* addresses have been translated (xlat_6to4.c): one IPv4 packet, a chain   *)
(* of IPv4 fragments, an ICMPv6 Packet Too Big back to the source           *)
(* (router_ipv6.c), or nothing.  The counterpart of SendIPv6, with two      *)
(* differences: here the size of the packet decides whether it may be       *)
(* fragmented, and the outbound MTU may be as low as 96 bytes, so that even *)
(* a translated ICMP error message may be fragmented.                       *)
(*                                                                          *)
(* Payloads are sizes.  Hop limits are left out.                            *)
(****************************************************************************)
EXTENDS Integers, Sequences

CONSTANTS
    Packets,     \* the IPv6 packets that may arrive
    Mtus4,       \* the values of translator.ipv4.outbound_mtu
    Mtus6        \* the values of translator.ipv6.outbound_mtu

MIN_MTU_IPV4 == 96
MIN_MTU_IPV6 == 1280
MAX_MTU == 65515
LAST_OFFSET == 8191     \* fragment offsets have 13 bits, in units of 8 bytes
FRAGMENTABLE == 1260    \* IPv4 packets up to this size leave with DF clear

\* size: the whole packet; ext: its extension headers, of which a fragment
\* header has 8 bytes; checksum: is the UDP checksum present?; inner: the IPv6
\* headers of the packet inside an ICMPv6 error message.
IPv6Packet ==
    {p \in [size : Nat, ext : Nat, offset : Nat, more : BOOLEAN, inner : Nat,
            proto : {"tcp", "udp", "echo", "error", "other"}, checksum : BOOLEAN] :
        /\ p.ext % 8 = 0
        /\ 40 + p.ext <= p.size /\ p.size <= 65535
        /\ p.offset <= LAST_OFFSET
        /\ p.offset > 0 \/ p.more => p.ext >= 8
        /\ p.inner >= 40}

ASSUME SendIPv4Assumption ==
    /\ \A p \in Packets : p \in IPv6Packet
    /\ \A m \in Mtus4 : m \in Nat /\ MIN_MTU_IPV4 <= m /\ m <= MAX_MTU
    /\ \A m \in Mtus6 : m \in Nat /\ MIN_MTU_IPV6 <= m /\ m <= MAX_MTU

VARIABLES
    mtu4, mtu6,     \* the configuration
    step,           \* where the thread is
    packet,         \* in_packet_buffer
    rest,           \* payload2_size, while the first part is being sent
    left,           \* remaining_payload_part_size
    offset,         \* fragment_offset_8byte_chunks
    part,           \* which part of the payload is being sent
    out,            \* the IPv4 packets sent for this packet, in order
    reported        \* the MTU in the Packet Too Big that was sent, or 0

config == <<mtu4, mtu6>>
loop == <<rest, left, offset, part>>
vars == <<config, step, packet, loop, out, reported>>

-----------------------------------------------------------------------------
(* Sizes.                                                                   *)

PayloadSize(p) == p.size - 40 - p.ext

IsFragment(p) == p.offset > 0 \/ p.more

\* What an ICMPv6 error message carries behind its packet's IPv6 headers.
Quoted(p) == PayloadSize(p) - 8 - p.inner

\* A translated error message: 8 bytes, an IPv4 header of 20, and what the
\* packet inside carried, cut so that the whole packet is 576 bytes at most.
ErrorMessageSize(p) == IF 28 + Quoted(p) < 556 THEN 28 + Quoted(p) ELSE 556

\* The payload of the IPv4 packet, both parts of it.
SentSize(p) == IF p.proto = "error" THEN ErrorMessageSize(p) ELSE PayloadSize(p)

\* The size of payload 1, rewritten during the translation and a multiple of 8
\* bytes.  A TCP header of 20 to 23 bytes, and an error message with less than
\* 4 quoted bytes, are the whole payload and are sent as payload 2.
FirstPartSize(p) ==
    IF p.offset > 0 THEN 0
    ELSE IF p.proto = "tcp" /\ PayloadSize(p) >= 24 THEN 24
    ELSE IF p.proto \in {"udp", "echo"} /\ PayloadSize(p) >= 8 THEN 8
    ELSE IF p.proto = "error" /\ Quoted(p) >= 4 THEN 32
    ELSE 0

\* total_packet_size of _appropriately_send_ipv4_packet().
TranslatedSize(p) == 20 + SentSize(p)

\* Variation: the payload's size is not rounded down.
MaxFragmentPayloadUnrounded(mtu) == mtu - 20

MaxFragmentPayload(mtu) == (mtu - 20) - ((mtu - 20) % 8)

\* Variation: the smallest MTU an IPv6 link may have is forgotten.
NeededMtuUnclamped(mtu) == (mtu + 20) % 65536

\* The MTU put into the Packet Too Big message, a uint16_t.
NeededMtu(mtu) == IF (mtu + 20) % 65536 < 1280 THEN 1280 ELSE (mtu + 20) % 65536

\* The size of an ICMPv6 error message of _send_icmpv6_to_in_ipv6_packet_src().
ErrorSize(p) == 48 + (IF p.size < 1232 THEN p.size ELSE 1232)

-----------------------------------------------------------------------------
NoPacket == [size |-> 40, ext |-> 0, offset |-> 0, more |-> FALSE, inner |-> 40,
             proto |-> "other", checksum |-> TRUE]

Init ==
    /\ mtu4 \in Mtus4
    /\ mtu6 \in Mtus6
    /\ step = "idle"
    /\ packet = NoPacket
    /\ rest = 0 /\ left = 0 /\ offset = 0 /\ part = 1
    /\ out = <<>>
    /\ reported = 0

\* A packet is read and its header translated.
Receive ==
    /\ step = "idle"
    /\ packet' \in Packets
    /\ step' = "decide"
    /\ UNCHANGED <<config, loop, out, reported>>

\* Packets dropped before their size matters: a fragment that is not the last
\* of its datagram and not a multiple of 8 bytes; a fragmented ICMP message,
\* one without a full header, or an error message without the full headers of
\* the packet in error; UDP without a checksum.
Unsendable(p) ==
    \/ p.more /\ PayloadSize(p) % 8 # 0
    \/ p.proto \in {"echo", "error"} /\ (IsFragment(p) \/ PayloadSize(p) < 8)
    \/ p.proto = "error" /\ Quoted(p) < 0
    \/ p.proto = "udp" /\ p.offset = 0 /\ PayloadSize(p) >= 8 /\ ~p.checksum

Drop ==
    /\ step = "decide"
    /\ Unsendable(packet)
    /\ step' = "dropped"
    /\ UNCHANGED <<config, packet, loop, out, reported>>

\* xlat_io__send_ipv4_packet(): a packet beyond the MTU is dropped silently.
Sent(p, size) == IF size <= mtu4 THEN Append(out, p) ELSE out

\* A packet that fits leaves whole; DF is set on those that nobody may cut.
SendWhole ==
    /\ step = "decide"
    /\ ~Unsendable(packet)
    /\ TranslatedSize(packet) <= mtu4
    /\ out' = Sent([offset |-> packet.offset, size |-> SentSize(packet),
                    more |-> packet.more, df |-> TranslatedSize(packet) > FRAGMENTABLE],
                   TranslatedSize(packet))
    /\ step' = "sent"
    /\ UNCHANGED <<config, packet, loop, reported>>

\* router_ipv6__send_packet_too_big_to_in_ipv6_packet_src(); the error message
\* itself passes the size check of xlat_io__send_ipv6_packet().
PacketTooBig ==
    /\ step = "decide"
    /\ ~Unsendable(packet)
    /\ TranslatedSize(packet) > FRAGMENTABLE
    /\ TranslatedSize(packet) > mtu4
    /\ reported' = IF ErrorSize(packet) <= mtu6 THEN NeededMtu(mtu4) ELSE 0
    /\ step' = "bounced"
    /\ UNCHANGED <<config, packet, loop, out>>

\* _fragment_and_send_ipv4_packet(), up to its first part.  A first part that
\* is not a multiple of 8 bytes "should never happen".
StartFragments ==
    /\ step = "decide"
    /\ ~Unsendable(packet)
    /\ TranslatedSize(packet) <= FRAGMENTABLE
    /\ TranslatedSize(packet) > mtu4
    /\ LET first == FirstPartSize(packet) IN
         IF first > 0
         THEN part' = 1 /\ left' = first /\ rest' = SentSize(packet) - first
         ELSE part' = 2 /\ left' = SentSize(packet) /\ rest' = 0
    /\ offset' = packet.offset
    /\ step' = IF FirstPartSize(packet) % 8 = 0 THEN "part" ELSE "aborted"
    /\ UNCHANGED <<config, packet, out, reported>>

\* more_fragments_after_this_part
MoreAfterPart == (part = 1 /\ rest > 0) \/ packet.more

\* The check at the top of _fragment_and_send_ipv4_packet_part().
CheckPart ==
    /\ step = "part"
    /\ step' = IF MoreAfterPart /\ left % 8 # 0 THEN "aborted" ELSE "fragment"
    /\ UNCHANGED <<config, packet, loop, out, reported>>

MoreAfterFragment(max) == left > max \/ MoreAfterPart

OffsetTooLarge == offset > LAST_OFFSET

FragmentSize(max) == IF left < max THEN left ELSE max

\* One iteration of its loop.
SendFragment ==
    /\ step = "fragment"
    /\ left > 0
    /\ ~OffsetTooLarge
    /\ LET max == MaxFragmentPayload(mtu4)
           size == FragmentSize(max)
       IN  /\ out' = Sent([offset |-> offset, size |-> size,
                           more |-> MoreAfterFragment(max), df |-> FALSE], 20 + size)
           /\ left' = left - size
           /\ offset' = offset + size \div 8
    /\ UNCHANGED <<config, step, packet, rest, part, reported>>

\* The fragment would start beyond what its header can say: the rest of the
\* packet is given up, the fragments already sent are not called back.
GiveUp ==
    /\ step = "fragment"
    /\ left > 0
    /\ OffsetTooLarge
    /\ step' = "aborted"
    /\ UNCHANGED <<config, packet, loop, out, reported>>

NextPart ==
    /\ step = "fragment"
    /\ left = 0
    /\ part = 1 /\ rest > 0
    /\ part' = 2 /\ left' = rest /\ rest' = 0
    /\ step' = "part"
    /\ UNCHANGED <<config, packet, offset, out, reported>>

FragmentsDone ==
    /\ step = "fragment"
    /\ left = 0
    /\ rest = 0
    /\ step' = "fragmented"
    /\ UNCHANGED <<config, packet, loop, out, reported>>

\* The thread goes back to read(); what it kept on its stack is gone.
Finished == {"dropped", "sent", "bounced", "aborted", "fragmented"}

Finish ==
    /\ step \in Finished
    /\ step' = "idle"
    /\ packet' = NoPacket
    /\ rest' = 0 /\ left' = 0 /\ offset' = 0 /\ part' = 1
    /\ out' = <<>>
    /\ reported' = 0
    /\ UNCHANGED config

Next ==
    \/ Receive \/ Drop \/ SendWhole \/ PacketTooBig
    \/ StartFragments \/ CheckPart \/ SendFragment \/ GiveUp \/ NextPart \/ FragmentsDone
    \/ Finish

Spec == Init /\ [][Next]_vars

-----------------------------------------------------------------------------
Piece == [offset : Nat, size : Nat, more : BOOLEAN, df : BOOLEAN]

\* Every variable keeps its type.
TypeOK ==
    /\ mtu4 \in Mtus4
    /\ mtu6 \in Mtus6
    /\ step \in {"idle", "decide", "part", "fragment"} \cup Finished
    /\ packet \in IPv6Packet
    /\ rest \in Nat
    /\ left \in Nat
    /\ offset \in Nat
    /\ part \in {1, 2}
    /\ out \in Seq(Piece)
    /\ reported \in Nat

\* The pieces sent so far follow each other without a gap or an overlap from
\* the packet's own offset on, all but the last say that more follow, and
\* every offset fits into its 13 bits.
Contiguous ==
    /\ \A i \in 1..Len(out) : out[i].offset <= LAST_OFFSET
    /\ out # <<>> => out[1].offset = packet.offset
    /\ \A i \in 1..(Len(out) - 1) :
         /\ out[i + 1].offset * 8 = out[i].offset * 8 + out[i].size
         /\ out[i].more

\* A receiver that puts the pieces together gets back the whole translated
\* payload: none is dropped by the size check, none is repeated, and the last
\* one tells whether other fragments of the datagram follow.
Reassembles ==
    step \in {"sent", "fragmented"} =>
        /\ Contiguous
        /\ out # <<>>
        /\ LET last == out[Len(out)] IN
             /\ last.offset * 8 + last.size = packet.offset * 8 + SentSize(packet)
             /\ last.more = packet.more

\* A packet is given up half sent only if it reaches beyond the 65536 bytes a
\* datagram's fragments can address; in particular neither check of the parts'
\* sizes ever fails.
GivesUpOnlyBeyondDatagram ==
    step = "aborted" => packet.offset * 8 + SentSize(packet) > 8 * (LAST_OFFSET + 1)

\* A source told that its packet is too big really hears it (the ICMPv6 error
\* message fits into every MTU the configuration accepts), is told a size
\* below the one it used but none an IPv6 link may not have, and passes with
\* whatever it sends up to that size.
ReportedMtuWorks ==
    step = "bounced" =>
        /\ reported >= MIN_MTU_IPV6
        /\ reported < packet.size
        /\ \A size \in (40 + packet.ext)..reported :
             LET total == TranslatedSize([packet EXCEPT !.size = size])
             IN  total <= FRAGMENTABLE \/ total <= mtu4

\* Fragmenting ends, for any MTU and packet: every round of the loop sends a
\* part of what is left, and as much as the units of 8 bytes allow, so that
\* no packet becomes more fragments than it must.
FragmentsAreFull ==
    [][SendFragment =>
         /\ left' < left
         /\ left' > 0 => 20 + (left - left') + 8 > mtu4]_vars

-----------------------------------------------------------------------------
(* The inductive invariant.                                                 *)

Fragmenting == {"part", "fragment", "aborted", "fragmented"}

\* The bytes of the payload that are still to be sent.
Remaining == left + rest

\* The two parts of the payload are cut at multiples of 8 bytes.
PartsAligned ==
    /\ part = 1 => left % 8 = 0
    /\ part = 2 => rest = 0
    /\ packet.more => (left + rest) % 8 = 0

\* offset says where the next piece belongs, as long as there is one.
OffsetFollows ==
    /\ Remaining > 0 => offset * 8 + Remaining = packet.offset * 8 + SentSize(packet)
    /\ Remaining <= SentSize(packet)

\* Where the pieces sent so far end, and what the last of them announces.
EndsWhereRestBegins ==
    IF out = <<>>
    THEN Remaining = SentSize(packet) /\ offset = packet.offset
    ELSE LET last == out[Len(out)] IN
           /\ last.offset * 8 + last.size + Remaining
                = packet.offset * 8 + SentSize(packet)
           /\ last.more <=> (Remaining > 0 \/ packet.more)

FragmentInv ==
    /\ step \in {"idle", "decide", "bounced"} => out = <<>>
    /\ step \in Fragmenting \cup {"sent", "bounced"} => ~Unsendable(packet)
    /\ step \in Fragmenting =>
         /\ TranslatedSize(packet) > mtu4
         /\ Contiguous
         /\ PartsAligned
         /\ OffsetFollows
         /\ EndsWhereRestBegins
    /\ step = "fragmented" => Remaining = 0
    /\ step = "aborted" => Remaining > 0 /\ offset > LAST_OFFSET
    /\ step = "bounced" =>
         /\ TranslatedSize(packet) > mtu4
         /\ TranslatedSize(packet) > FRAGMENTABLE
         /\ reported = NeededMtu(mtu4)
    /\ step = "sent" => out = <<[offset |-> packet.offset, size |-> SentSize(packet),
                                 more |-> packet.more,
                                 df |-> TranslatedSize(packet) > FRAGMENTABLE]>>
=============================================================================
