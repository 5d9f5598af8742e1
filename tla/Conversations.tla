---------------------------- MODULE Conversations ----------------------------
(****************************************************************************)
(* Packets between the two ends of a chain of translators with built-in     *)
(* addressing modes, as the CLAT and the NAT64 of 464XLAT.  A host sends a  *)
(* request; its destination answers it, or any node on its way sends an     *)
(* ICMP error about it.  A translator knows nothing of earlier packets:     *)
(* that answers find back, that errors name the right packet and that two   *)
(* requests are not taken for one follows from the mappings alone.          *)
(*                                                                          *)
(* Place k is the network between translators k and k + 1; requests start   *)
(* at place 0 or at the last one.                                           *)
(****************************************************************************)
EXTENDS AddressModes, Sequences

CONSTANTS
    Configs,    \* configurations of a translator
    Chains,     \* chains: the family at place 0 and the translators
    Hosts4,     \* IPv4 addresses from and to which hosts send packets
    Hosts6      \* IPv6 addresses from and to which hosts send packets

\* An IPv6 address has nothing but its two parts.
IsAddress6(x) == x = [prefix |-> x.prefix, low |-> x.low]

\* What conf_file.c makes sure of.
IsConfig(c) ==
    /\ IsAddress6(c.translator6) /\ IsAddress6(c.router6)
    /\ c.mode \in {"nat64", "clat", "siit"}
    /\ c.mode # "siit" => c.translator4 # c.router4 /\ c.translator6 # c.router6

ASSUME ConversationsAssumption ==
    /\ \A c \in Configs : IsConfig(c)
    /\ \A x \in Hosts6 : IsAddress6(x)
    /\ Chains \subseteq [family : {4, 6}, translators : Seq(Configs)]

VARIABLES
    chain,      \* one of the chains; it does not change
    packet,     \* the packet on its way
    fate,       \* "none", "travels", "dropped" or "arrived"
    trail,      \* the addresses the request had at each place
    earlier     \* an earlier request that arrived: its addresses at each place

vars == <<chain, packet, fate, trail, earlier>>

Last == Len(chain.translators)
Family(place) == IF place % 2 = 0 THEN chain.family ELSE 10 - chain.family
Hosts(place) == IF Family(place) = 4 THEN Hosts4 ELSE Hosts6

\* No addresses: the request was not there.
Nobody == <<>>

Kinds == {"request", "answer", "error"}
NoPacket == [kind |-> "request", place |-> 0, up |-> TRUE, addresses |-> Nobody, quoted |-> Nobody]

Init ==
    /\ chain \in Chains
    /\ packet = NoPacket
    /\ fate = "none"
    /\ trail = [k \in 0..Last |-> Nobody]
    /\ earlier = trail

\* A packet moves up or down the chain.
Start(up) == IF up THEN 0 ELSE Last
End(up) == IF up THEN Last ELSE 0

NextPlace == IF packet.up THEN packet.place + 1 ELSE packet.place - 1
NextTranslator == chain.translators[IF packet.up THEN packet.place + 1 ELSE packet.place]

Send ==
    /\ fate = "none"
    /\ \E up \in BOOLEAN : \E addresses \in Hosts(Start(up)) \X Hosts(Start(up)) :
         /\ packet' = [NoPacket EXCEPT !.place = Start(up), !.up = up, !.addresses = addresses]
         /\ trail' = [trail EXCEPT ![Start(up)] = addresses]
    /\ fate' = "travels"
    /\ UNCHANGED <<chain, earlier>>

\* The addresses the next translator gives the packet and its quoted packet.
Translated == Main(Family(packet.place), packet.addresses, NextTranslator)
TranslatedQuote ==
    IF packet.kind = "error" THEN Quoted(Family(packet.place), packet.quoted, NextTranslator)
    ELSE {Nobody}

Cross ==
    /\ fate = "travels"
    /\ packet.place # End(packet.up)
    /\ \E addresses \in Translated : \E quoted \in TranslatedQuote :
         /\ packet' = [packet EXCEPT !.place = NextPlace, !.addresses = addresses, !.quoted = quoted]
         /\ trail' = IF packet.kind = "request"
                     THEN [trail EXCEPT ![NextPlace] = addresses] ELSE trail
    /\ UNCHANGED <<chain, fate, earlier>>

Drop ==
    /\ fate = "travels"
    /\ packet.place # End(packet.up)
    /\ Translated = {} \/ TranslatedQuote = {}
    /\ fate' = "dropped"
    /\ UNCHANGED <<chain, packet, trail, earlier>>

Arrive ==
    /\ fate = "travels"
    /\ packet.place = End(packet.up)
    /\ fate' = "arrived"
    /\ UNCHANGED <<chain, packet, trail, earlier>>

\* The destination of a request answers it.
Answer ==
    /\ fate = "arrived"
    /\ packet.kind = "request"
    /\ packet' = [packet EXCEPT !.kind = "answer", !.up = ~packet.up,
                  !.addresses = <<packet.addresses[2], packet.addresses[1]>>]
    /\ fate' = "travels"
    /\ UNCHANGED <<chain, trail, earlier>>

\* A node, or the destination, sends an error about a request.
Complain ==
    /\ fate \in {"travels", "arrived"}
    /\ packet.kind = "request"
    /\ \E source \in Hosts(packet.place) \cup {packet.addresses[2]} :
         packet' = [packet EXCEPT !.kind = "error", !.up = ~packet.up,
                    !.addresses = <<source, packet.addresses[1]>>,
                    !.quoted = packet.addresses]
    /\ fate' = "travels"
    /\ UNCHANGED <<chain, trail, earlier>>

\* The next request.  A request that arrived may be remembered.
Finish ==
    /\ fate \in {"dropped", "arrived"}
    /\ packet' = NoPacket
    /\ fate' = "none"
    /\ trail' = [k \in 0..Last |-> Nobody]
    /\ \/ earlier' = earlier
       \/ fate = "arrived" /\ packet.kind = "request" /\ earlier' = trail
    /\ UNCHANGED chain

Next == Send \/ Cross \/ Drop \/ Arrive \/ Answer \/ Complain \/ Finish

Spec == Init /\ [][Next]_vars

-----------------------------------------------------------------------------
\* Every variable keeps its type.
TypeOK ==
    /\ chain \in Chains
    /\ packet.kind \in Kinds
    /\ packet.place \in 0..Last
    /\ packet.up \in BOOLEAN
    /\ fate \in {"none", "travels", "dropped", "arrived"}
    /\ DOMAIN trail = 0..Last
    /\ DOMAIN earlier = 0..Last

\* Nothing from an address gets past the next translator, whoever it is for.
IsRefusedSource(source) ==
    \A host \in Hosts(packet.place) \cup {trail[packet.place][1]} :
        Main(Family(packet.place), <<source, host>>, NextTranslator) = {}

\* An answer to a translated packet is never dropped by a translator.  Nor is
\* an error about it, on account of its destination or of what it quotes: only
\* one from an address that nothing is translated from, which the packet's
\* destination never is.
AnswersReturn ==
    fate = "dropped" /\ packet.kind # "request" =>
        /\ packet.kind = "error"
        /\ packet.addresses[1] # trail[packet.place][2]
        /\ IsRefusedSource(packet.addresses[1])

\* Wherever an answer is, it comes from where the request was sent to and goes
\* to where the request came from; in the end that is the host that sent it.
AnswersFindBack ==
    packet.kind = "answer" =>
        packet.addresses = <<trail[packet.place][2], trail[packet.place][1]>>

\* Wherever an error is, it goes to where the request came from and quotes
\* the request as it was there, byte by byte as its sender will compare it.
ErrorsNameTheRequest ==
    packet.kind = "error" =>
        /\ packet.quoted = trail[packet.place]
        /\ packet.addresses[2] = trail[packet.place][1]

\* Two requests that are the same at one place are the same at every place
\* where both have been: hosts of one side are not taken for each other.
RequestsStayApart ==
    \A j, k \in 0..Last :
        trail[j] # Nobody /\ trail[k] # Nobody /\ earlier[k] # Nobody
            /\ trail[j] = earlier[j] => trail[k] = earlier[k]

\* The address of a translator's router, on either side of it.
Router(family, c) == IF family = 4 THEN c.router4 ELSE c.router6

\* No packet gets past a translator to or from its router's own address, on
\* the side it came from or on the other: hosts could not tell it from the
\* router's own packets.
RouterStaysApart ==
    \A k \in 1..Last : trail[k - 1] # Nobody /\ trail[k] # Nobody =>
        \A i \in 1..2 : \A place \in {k - 1, k} :
            trail[place][i] # Router(Family(place), chain.translators[k])
=============================================================================
