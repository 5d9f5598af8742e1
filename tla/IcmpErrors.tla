------------------------------ MODULE IcmpErrors ------------------------------
(****************************************************************************)
(* An ICMP message on its way through two translators, as between a host    *)
(* behind a CLAT and the IPv4 Internet behind a NAT64 (464XLAT), or between *)
(* two IPv6 networks.  Whatever the first translator makes of a message,    *)
(* the second takes as its input.  A quoted packet is read by the host that *)
(* sent it, which must find out what happened to which of its packets.      *)
(****************************************************************************)
EXTENDS IcmpTranslation

CONSTANTS
    Messages4,      \* ICMPv4 messages that may arise
    Messages6,      \* ICMPv6 messages that may arise
    Configs         \* configurations of a translator

Messages ==
    [type : Bytes, code : Bytes,
     rest : [pointer : Nat, mtu : Words, stray : BOOLEAN],
     quoted : [readable : BOOLEAN, header : Nat, size : Nat, total : Nat,
               fragment : BOOLEAN, icmp : BOOLEAN, echo : BOOLEAN]]

ASSUME IcmpAssumption ==
    /\ Messages4 \cup Messages6 \subseteq Messages
    /\ \A c \in Configs : /\ c.mtu4 \in Nat /\ c.mtu4 >= 96 /\ c.mtu4 <= 65515
                          /\ c.mtu6 \in Nat /\ c.mtu6 >= 1280 /\ c.mtu6 <= 65515

VARIABLES
    config,     \* the configurations of both translators
    family,     \* the protocol the message is in: 4 or 6
    origin,     \* the message and its family as they were at first
    message,    \* the message as it is now
    crossed,    \* how many translators it has passed
    fate        \* "none", "travels", "dropped" or "arrived"

errorsVars == <<config, family, origin, message, crossed, fate>>

Nothing ==
    [type |-> 0, code |-> 0, rest |-> Blank,
     quoted |-> [readable |-> FALSE, header |-> 0, size |-> 0, total |-> 0,
                 fragment |-> FALSE, icmp |-> FALSE, echo |-> FALSE]]

ErrorsInit ==
    /\ config \in [1..2 -> Configs]
    /\ family = 4
    /\ origin = [family |-> 4, message |-> Nothing]
    /\ message = Nothing
    /\ crossed = 0
    /\ fate = "none"

\* Some router or host answers a packet with an ICMP message.
Arise ==
    /\ fate = "none"
    /\ \E f \in {4, 6} : \E m \in (IF f = 4 THEN Messages4 ELSE Messages6) :
         family' = f /\ message' = m /\ origin' = [family |-> f, message |-> m]
    /\ fate' = "travels"
    /\ UNCHANGED <<config, crossed>>

\* What the next translator makes of the message.
Translated ==
    IF family = 4 THEN Translation4to6(message, config[crossed + 1])
    ELSE Translation6to4(message, config[crossed + 1])

Cross ==
    /\ fate = "travels"
    /\ crossed < 2
    /\ message' \in Translated
    /\ family' = 10 - family
    /\ crossed' = crossed + 1
    /\ UNCHANGED <<config, origin, fate>>

Drop ==
    /\ fate = "travels"
    /\ crossed < 2
    /\ Translated = {}
    /\ fate' = "dropped"
    /\ UNCHANGED <<config, family, origin, message, crossed>>

ReachHost ==
    /\ fate = "travels"
    /\ crossed = 2
    /\ fate' = "arrived"
    /\ UNCHANGED <<config, family, origin, message, crossed>>

\* The next message.
Finish ==
    /\ fate \in {"dropped", "arrived"}
    /\ family' = 4 /\ message' = Nothing /\ crossed' = 0 /\ fate' = "none"
    /\ origin' = [family |-> 4, message |-> Nothing]
    /\ UNCHANGED config

ErrorsNext == Arise \/ Cross \/ Drop \/ ReachHost \/ Finish

ErrorsSpec == ErrorsInit /\ [][ErrorsNext]_errorsVars

-----------------------------------------------------------------------------
(* What a host reads in a message (RFC 792, RFC 1122, RFC 1812; RFC 4443).  *)

Meaning4(m) ==
    CASE m.type = 8 -> "echo request"
      [] m.type = 0 -> "echo reply"
      [] m.type = 3 ->
           IF m.code \in {9, 10, 13, 15} THEN "prohibited"
           ELSE IF m.code = 2 THEN "no such protocol"
           ELSE IF m.code = 3 THEN "no such port"
           ELSE IF m.code = 4 THEN "too big"
           ELSE "unreachable"
      [] m.type = 11 -> IF m.code = 0 THEN "no hops left" ELSE "fragments missing"
      [] OTHER -> "bad header"

Meaning6(m) ==
    CASE m.type = 128 -> "echo request"
      [] m.type = 129 -> "echo reply"
      [] m.type = 1 ->
           IF m.code = 1 THEN "prohibited"
           ELSE IF m.code = 4 THEN "no such port"
           ELSE "unreachable"
      [] m.type = 2 -> "too big"
      [] m.type = 3 -> IF m.code = 0 THEN "no hops left" ELSE "fragments missing"
      [] m.type = 4 /\ m.code = 1 -> "no such protocol"
      [] OTHER -> "bad header"

Meaning(f, m) == IF f = 4 THEN Meaning4(m) ELSE Meaning6(m)

\* The field of an IP header that a byte lies in; both headers have these.
Field4(byte) ==
    CASE byte \in 0..1 -> "version or class"
      [] byte \in 2..3 -> "length"
      [] byte = 8 -> "hops"
      [] byte = 9 -> "protocol"
      [] byte \in 12..15 -> "source"
      [] byte \in 16..19 -> "destination"
      [] OTHER -> "another"

Field6(byte) ==
    CASE byte \in 0..1 -> "version or class"
      [] byte \in 4..5 -> "length"
      [] byte = 6 -> "protocol"
      [] byte = 7 -> "hops"
      [] byte \in 8..23 -> "source"
      [] byte \in 24..39 -> "destination"
      [] OTHER -> "another"

Field(f, m) == IF f = 4 THEN Field4(m.rest.pointer) ELSE Field6(m.rest.pointer)

IsError(f, m) == IF f = 4 THEN m.type \notin Echo4 ELSE m.type \notin Echo6

-----------------------------------------------------------------------------
\* Every variable keeps its type: a translation gives no type, code or MTU that
\* does not fit its field.
ErrorsTypeOK ==
    /\ config \in [1..2 -> Configs]
    /\ family \in {4, 6} /\ message \in Messages
    /\ origin \in [family : {4, 6}, message : Messages]
    /\ crossed \in 0..2
    /\ fate \in {"none", "travels", "dropped", "arrived"}

\* A message tells the host the same as the one that arose: a temporary
\* failure is not made a final one or the other way round, an answer to an
\* echo not a request, and a bad header is still bad in the same field.
\* Two translators in a row wear nothing of it down.
MeaningKept ==
    crossed > 0 =>
        /\ Meaning(family, message) = Meaning(origin.family, origin.message)
        /\ Meaning(family, message) = "bad header" =>
             /\ Field(family, message) = Field(origin.family, origin.message)
             /\ Field(family, message) # "another"
        /\ ~IsError(family, message) => message.rest = origin.message.rest

\* What one translator lets through, the next one does too: every message it
\* makes is one the other direction understands.
SecondCarriesOn == fate = "dropped" => crossed = 0

\* An error message is never about an error message, and shows of the quoted
\* packet what its sender needs to find the connection, if it did so at first.
QuoteIdentifies ==
    crossed > 0 /\ IsError(family, message) =>
        LET q == message.quoted  old == origin.message.quoted
        IN  /\ q.size >= Smaller(8, old.size)
            /\ q.icmp => q.echo
            /\ q.fragment = old.fragment /\ q.icmp = old.icmp

\* A translated error message fits into the smallest MTU of its network
\* (1280 bytes, or the 576 every IPv4 host accepts), and if its rewritten
\* beginning has an odd number of bytes nothing follows: its checksum is the
\* sum of both parts.
ErrorFits ==
    crossed > 0 /\ IsError(family, message) =>
        LET q == message.quoted
            size == 8 + q.header + q.size
            start == IF family = 4 THEN StartSize4(q) ELSE StartSize6(q)
        IN  /\ size <= (IF family = 4 THEN 576 - 20 ELSE 1280 - 40)
            /\ start <= size
            /\ start % 2 = 1 => size = start
=============================================================================
