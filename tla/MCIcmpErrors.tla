------------------------------ MODULE MCIcmpErrors ------------------------------
(* TLC instance of IcmpErrors: every type and code that one side knows and  *)
(* some that it does not, every pointer, and quotes of every boundary size. *)
EXTENDS IcmpErrors

Quote(header, size, fragment, icmp, echo) ==
    [readable |-> TRUE, header |-> header, size |-> size, total |-> 1500,
     fragment |-> fragment, icmp |-> icmp, echo |-> echo]

Usual(header) == Quote(header, 8, FALSE, FALSE, FALSE)

Quotes(headers) ==
    {Quote(h, size, fragment, icmp, echo) :
        h \in headers, size \in {0, 3, 4, 7, 8, 9, 528, 529, 1232},
        fragment \in BOOLEAN, icmp \in BOOLEAN, echo \in BOOLEAN}
    \cup {[Usual(h) EXCEPT !.readable = FALSE] : h \in headers}

Message(type, code, rest, quoted) ==
    [type |-> type, code |-> code, rest |-> rest, quoted |-> quoted]

Pointer(byte) == [Blank EXCEPT !.pointer = byte]
Mtu(mtu) == [Blank EXCEPT !.mtu = mtu]
Stray == [Blank EXCEPT !.stray = TRUE]

Rests(bytes) == {Pointer(b) : b \in bytes} \cup {Mtu(m) : m \in {1, 1280, 1500}} \cup {Stray}

Types4 ==
    {<<type, 0>> : type \in {0, 4, 5, 8, 13}} \cup {<<3, code>> : code \in 0..16}
    \cup {<<type, code>> : type \in {8, 11, 12}, code \in 0..3}

Types6 ==
    {<<type, 0>> : type \in {2, 128, 129, 130, 135}}
    \cup {<<type, code>> : type \in 1..4, code \in 0..7}

MCMessages4 ==
    {Message(t[1], t[2], rest, Usual(20)) : t \in Types4, rest \in Rests(0..21)}
    \cup {Message(3, 1, Blank, q) : q \in Quotes({20, 24, 60})}

MCMessages6 ==
    {Message(t[1], t[2], rest, Usual(40)) : t \in Types6, rest \in Rests(0..41)}
    \cup {Message(1, 4, Blank, q) : q \in Quotes({40, 48, 64})}

MCConfigs == {[mtu4 |-> 1480, mtu6 |-> 1500]}
=============================================================================
