-------------------------------- MODULE Checksums --------------------------------
(****************************************************************************)
(* The checksums of checksum.c (RFC 1071): sums of 16-bit words in 32 bits, *)
(* folded into 16 at the end, computed in the byte order of the machine.    *)
(* Here a byte has BYTE values, a word of two bytes BYTE^2, and the 32-bit  *)
(* numbers of the code WORD^2.                                              *)
(****************************************************************************)
EXTENDS Integers, Sequences

CONSTANTS
    BYTE,           \* how many values a byte has
    LittleEndian    \* the machine's byte order

ASSUME ChecksumsAssumption == BYTE \in Nat \ {0, 1} /\ LittleEndian \in BOOLEAN

WORD == BYTE * BYTE
DOUBLE == WORD * WORD       \* the values of a uint32_t

\* A uint16_t from its bytes in memory, and back.
HostWord(first, second) ==
    IF LittleEndian THEN first + BYTE * second ELSE BYTE * first + second
BytesOf(word) ==
    IF LittleEndian THEN <<word % BYTE, word \div BYTE>> ELSE <<word \div BYTE, word % BYTE>>

\* The same in network byte order, that of the lengths in pseudo headers.
NetworkBytes(n) == <<n \div BYTE, n % BYTE>>

-----------------------------------------------------------------------------
\* htons((uint16_t) (temp << 8)): a last byte without another is the first of
\* a word in any byte order.
OddByte(byte) == HostWord(byte, 0)

\* _sum_16bit_words()
Sum16(bytes) ==
    LET n == Len(bytes)
        sum[i \in 0..(n \div 2)] ==
            IF i = 0 THEN 0
            ELSE (sum[i - 1] + HostWord(bytes[2 * i - 1], bytes[2 * i])) % DOUBLE
    IN  (sum[n \div 2] + (IF n % 2 = 1 THEN OddByte(bytes[n]) ELSE 0)) % DOUBLE

\* Variation: the carry of adding the carries is lost.
FoldedOnce(n) == ((n % WORD) + (n \div WORD)) % WORD

\* _pack_into_16bits()
Folded(n) ==
    LET f[k \in Nat] == IF k < WORD THEN k ELSE f[(k % WORD) + (k \div WORD)]
    IN  f[n]

Inverted(n) == WORD - 1 - n

\* _sum_ipv4_pseudo_header(), _sum_ipv6_pseudo_header()
PseudoHeader4(source, destination, protocol, length) ==
    source \o destination \o <<0, protocol>> \o NetworkBytes(length)
PseudoHeader6(source, destination, protocol, length) ==
    source \o destination \o <<0, 0>> \o NetworkBytes(length) \o <<0, 0, 0, protocol>>

\* checksum__calculate_checksum_ipv4/6() of a payload in two parts.
Calculated(part1, part2, pseudoHeader) ==
    Inverted(Folded((Sum16(part1) + Sum16(part2) + Sum16(pseudoHeader)) % DOUBLE))

\* checksum__recalculate_checksum_4to6(), _6to4().  ~old_checksum is an int
\* with 32 bits, of which the upper half is not zero.
Recalculated(old, oldAddresses, newAddresses) ==
    Inverted(Folded(Folded((DOUBLE - 1 - old - Folded(Sum16(oldAddresses))) % DOUBLE)
                    + Folded(Sum16(newAddresses))))
=============================================================================
