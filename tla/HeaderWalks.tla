------------------------------ MODULE HeaderWalks ------------------------------
(****************************************************************************)
(* The three loops that walk along headers whose sizes the headers          *)
(* themselves give: the extension headers of an IPv6 packet (xlat_6to4.c),  *)
(* those of an IPv6 packet quoted in an ICMPv6 error, of which the end may  *)
(* be missing (xlat_6to4_icmp.c), and the options of an IPv4 packet         *)
(* (xlat_4to6.c).  Each keeps a pointer and a signed number of bytes left.  *)
(*                                                                          *)
(* An IPv6 packet is, behind its fixed header, a sequence of units of 8     *)
(* bytes and a tail of less than 8.  Whatever a unit is, it can be looked   *)
(* at as the beginning of a header: byte 0 is the next header's number,     *)
(* byte 1 the size, and "odd" says that a field is not zero which must be   *)
(* (segments left of a routing header, the reserved bits of a fragment      *)
(* header).  IPv4 options are a sequence of bytes.                          *)
(****************************************************************************)
EXTENDS Integers, Sequences

CONSTANTS
    Packets6,   \* IPv6 packets
    Options4    \* IPv4 options

Unit == [next : 0..255, size : 0..255, odd : BOOLEAN, more : BOOLEAN]

ASSUME HeaderWalksAssumption ==
    /\ Packets6 \subseteq [first : 0..255, units : Seq(Unit), tail : 0..7]
    /\ Options4 \subseteq Seq(0..255)

VARIABLES
    kind,       \* "idle", or what is walked along: "ipv6", "quoted" or "ipv4"
    packet,     \* one of Packets6 or Options4
    size,       \* the bytes of it that are there
    at,         \* current_header_ptr, current_option_ptr
    left,       \* remaining_packet_size, remaining_options_size
    header,     \* current_header_number
    fragment,   \* where the fragment header is, or NoFragment
    reach,      \* the end of the last byte that was read
    outcome,    \* "walking", "rejected" or "accepted"
    whole       \* what the walk along the whole IPv6 packet found, if a
                \* quoted one is known to have been let through

walk == <<at, left, header, fragment, reach>>
vars == <<kind, packet, size, walk, outcome, whole>>

NoFragment == -1
Nothing == <<>>

HOP_BY_HOP == 0
ICMPV4 == 1
ROUTING == 43
FRAGMENT == 44
DESTINATION == 60
END_OF_OPTIONS == 0
NO_OPERATION == 1
SOURCE_ROUTES == {131, 137}

Extensions == {HOP_BY_HOP, ROUTING, FRAGMENT, DESTINATION}

\* utils_ip__is_ip_proto_forbidden()
Forbidden == {0, 2, 43, 44, 51, 60, 135, 139, 140}

-----------------------------------------------------------------------------
Size6(p) == 8 * Len(p.units) + p.tail

\* What stands in memory behind the packet is of no interest: it must not be
\* read, which ReadsInside says.
Behind == [next |-> 59, size |-> 0, odd |-> FALSE, more |-> FALSE]
UnitIn(p, i) == IF i \div 8 < Len(p.units) THEN p.units[i \div 8 + 1] ELSE Behind
UnitAt(i) == UnitIn(packet, i)
ByteAt(i) == IF i < Len(packet) THEN packet[i + 1] ELSE 1

Init ==
    /\ kind = "idle"
    /\ packet = Nothing
    /\ size = 0
    /\ at = 0 /\ left = 0 /\ header = 0 /\ fragment = NoFragment /\ reach = 0
    /\ outcome = "walking"
    /\ whole = Nothing

\* A walk over the first n bytes begins at what follows the fixed header.
Begin(k, p, n, first) ==
    /\ kind' = k
    /\ packet' = p
    /\ size' = n
    /\ at' = 0 /\ left' = n /\ header' = first /\ fragment' = NoFragment /\ reach' = 0
    /\ outcome' = "walking"

Receive6 ==
    /\ kind = "idle"
    /\ \E p \in Packets6 : Begin("ipv6", p, Size6(p), p.first)
    /\ UNCHANGED whole

Receive4 ==
    /\ kind = "idle"
    /\ \E o \in Options4 : Begin("ipv4", o, Len(o), 0)
    /\ UNCHANGED whole

\* An ICMP error may carry any bytes: nothing ties them to a packet that was
\* let through.
QuoteUnseen ==
    /\ kind = "idle"
    /\ \E p \in Packets6 : Begin("quoted", p, Size6(p), p.first)
    /\ UNCHANGED whole

\* The beginning of a packet that was let through comes back in an ICMP error.
Quote ==
    /\ kind = "ipv6"
    /\ outcome = "accepted"
    /\ whole' = [at |-> at, header |-> header, fragment |-> fragment]
    /\ \E n \in 0..size : Begin("quoted", packet, n, packet.first)

Reject ==
    /\ outcome' = "rejected"
    /\ UNCHANGED <<kind, packet, size, at, left, header, fragment, whole>>

-----------------------------------------------------------------------------
(* Extension headers.                                                       *)

AtExtension ==
    /\ kind \in {"ipv6", "quoted"}
    /\ outcome = "walking"
    /\ fragment = NoFragment
    /\ header \in Extensions

\* Variation: any byte left is taken for a whole header.
IsCutOffAny(n) == n < 1

IsCutOff(n) == n < 8

HeaderSize(u) == 8 + 8 * u.size

CutOff ==
    /\ AtExtension
    /\ IsCutOff(left)
    /\ Reject
    /\ UNCHANGED reach

\* Only whole packets are refused because of what the header says; the size
\* of a fragment header is a reserved byte.
IsRefused(u) ==
    /\ kind = "ipv6"
    /\ \/ header = ROUTING /\ u.odd
       \/ header = FRAGMENT /\ (u.odd \/ u.size # 0)

Refuse ==
    /\ AtExtension
    /\ ~IsCutOff(left)
    /\ IsRefused(UnitAt(at))
    /\ reach' = at + 8
    /\ Reject

StepOver ==
    /\ AtExtension
    /\ ~IsCutOff(left)
    /\ LET u == UnitAt(at) IN
         /\ ~IsRefused(u)
         /\ header' = u.next
         /\ at' = at + HeaderSize(u)
         /\ left' = left - HeaderSize(u)
    /\ fragment' = IF header = FRAGMENT THEN at ELSE NoFragment
    /\ reach' = at + 8
    /\ UNCHANGED <<kind, packet, size, outcome, whole>>

\* Variation: quoted packets are checked like whole ones.
IsUnsuitableQuotedToo ==
    \/ header \in Forbidden \cup {ICMPV4}
    \/ fragment # NoFragment /\ UnitAt(fragment).more /\ left % 8 # 0

\* The payload of a fragment that is not the last one must be a multiple of 8
\* bytes.
IsUnsuitable ==
    /\ kind = "ipv6"
    /\ \/ header \in Forbidden \cup {ICMPV4}
       \/ fragment # NoFragment /\ UnitAt(fragment).more /\ left % 8 # 0

\* After the loop: the last header may have gone beyond the end.
EndOfHeaders ==
    /\ kind \in {"ipv6", "quoted"}
    /\ outcome = "walking"
    /\ ~AtExtension
    /\ outcome' = IF left < 0 \/ IsUnsuitable THEN "rejected" ELSE "accepted"
    /\ UNCHANGED <<kind, packet, size, walk, whole>>

-----------------------------------------------------------------------------
(* IPv4 options.                                                            *)

AtOption ==
    /\ kind = "ipv4"
    /\ outcome = "walking"
    /\ left > 0

IsOneByte(type) == type \in {END_OF_OPTIONS, NO_OPERATION}

\* Variation: only a size of nothing and no more is refused.
IsTooSmallNegative(n) == n < 0

IsTooSmall(n) == n < 2

\* A source route, an option without its size or beyond the header.
IsBadOption ==
    LET type == ByteAt(at) IN
    \/ type \in SOURCE_ROUTES
    \/ /\ ~IsOneByte(type)
       /\ left < 2 \/ IsTooSmall(ByteAt(at + 1)) \/ ByteAt(at + 1) > left

BadOption ==
    /\ AtOption
    /\ IsBadOption
    /\ reach' = IF ByteAt(at) \in SOURCE_ROUTES \/ left < 2 THEN at + 1 ELSE at + 2
    /\ Reject

\* Variation: the size does not count the type and the size itself.
OptionSizeOfData(i) == IF IsOneByte(ByteAt(i)) THEN 1 ELSE 2 + ByteAt(i + 1)

OptionSize(i) == IF IsOneByte(ByteAt(i)) THEN 1 ELSE ByteAt(i + 1)

SkipOption ==
    /\ AtOption
    /\ ~IsBadOption
    /\ at' = at + OptionSize(at)
    /\ left' = left - OptionSize(at)
    /\ reach' = IF IsOneByte(ByteAt(at)) THEN at + 1 ELSE at + 2
    /\ UNCHANGED <<kind, packet, size, header, fragment, outcome, whole>>

EndOfOptions ==
    /\ kind = "ipv4"
    /\ outcome = "walking"
    /\ left <= 0
    /\ outcome' = "accepted"
    /\ UNCHANGED <<kind, packet, size, walk, whole>>

-----------------------------------------------------------------------------
\* The packet is dealt with.
Finish ==
    /\ outcome # "walking"
    /\ kind' = "idle"
    /\ packet' = Nothing
    /\ size' = 0
    /\ at' = 0 /\ left' = 0 /\ header' = 0 /\ fragment' = NoFragment /\ reach' = 0
    /\ outcome' = "walking"
    /\ whole' = Nothing

Walk ==
    \/ CutOff \/ Refuse \/ StepOver \/ EndOfHeaders
    \/ BadOption \/ SkipOption \/ EndOfOptions

Next == Receive6 \/ Receive4 \/ QuoteUnseen \/ Quote \/ Walk \/ Finish

Spec == Init /\ [][Next]_vars

\* A thread does not stop within a loop that makes no system call.
FairSpec == Spec /\ WF_vars(Walk)

-----------------------------------------------------------------------------
\* Every variable keeps its type: the pointer never goes back before the
\* beginning.
TypeOK ==
    /\ kind \in {"idle", "ipv6", "quoted", "ipv4"}
    /\ kind = "idle" => packet = Nothing
    /\ kind \in {"ipv6", "quoted"} => packet \in Packets6
    /\ kind = "ipv4" => packet \in Options4
    /\ size \in Nat
    /\ at \in Nat
    /\ left \in Int
    /\ header \in 0..255
    /\ fragment \in Nat \cup {NoFragment}
    /\ reach \in Nat
    /\ outcome \in {"walking", "rejected", "accepted"}

\* No byte is read behind the end of the packet, of the quoted part or of the
\* options, and the payload of a packet that is let through lies within it:
\* each header is known to be there before it is read, although its size is
\* checked only after the pointer has been moved.  What is quoted may be
\* anything, with a fragment header's reserved byte taken for its size.
ReadsInside ==
    /\ reach <= size
    /\ outcome = "accepted" => at + left = size /\ 0 <= left

\* The walk along a quoted packet that was let through, written a second time
\* and without most of the checks, finds the same payload, protocol and
\* fragment header as the walk that let the packet through, if the quote
\* reaches that far, and otherwise rejects it.
QuoteReadsAlike ==
    kind = "quoted" /\ whole # Nothing =>
        /\ outcome = "accepted" =>
             [at |-> at, header |-> header, fragment |-> fragment] = whole
        /\ outcome = "rejected" => size < whole.at

\* Options according to RFC 791: one may stand at byte k if its size is there
\* and it fits, and the next one begins where it ends.
NextOption(k) == k + (IF IsOneByte(packet[k + 1]) THEN 1 ELSE packet[k + 2])
IsWhole(k) ==
    \/ IsOneByte(packet[k + 1])
    \/ k + 2 <= size /\ packet[k + 2] >= 2 /\ NextOption(k) <= size
IsSound(k) == IsWhole(k) /\ packet[k + 1] \notin SOURCE_ROUTES

\* Places between 0 and the end where one option after the other stands.
AreStarts(places) ==
    /\ {0, size} \subseteq places
    /\ \A k \in places \ {size} : IsSound(k) /\ NextOption(k) \in places

\* The options of a packet that is let through are whole and none of them is
\* a source route; a packet whose options are such is let through.
OptionsAreSound ==
    kind = "ipv4" /\ outcome # "walking" =>
        (outcome = "accepted" <=> \E places \in SUBSET (0..size) : AreStarts(places))

\* Each step of a walk ends it or leaves less to walk along, although headers
\* give their own sizes; only a walk with something left takes another step.
WalkAdvances ==
    [][Walk /\ outcome' = "walking" => left > 0 /\ left' < left]_vars

\* Each walk ends, whatever sizes the headers give: none may be zero.
WalksEnd == kind # "idle" ~> outcome # "walking"
=============================================================================
