------------------------------ MODULE MCDescriptors ------------------------------
(* TLC instance of Descriptors: TUN interfaces with one queue and with      *)
(* several, inherited descriptors that are shared, split and not.           *)
EXTENDS Descriptors

Setup(inherited, packet, external) ==
    [inherited |-> inherited, packet |-> packet, external |-> external]

None == [i \in Threads |-> <<NONE, NONE>>]
OneQueue == [i \in Threads |-> <<0, 0>>]
Queues == [i \in Threads |-> <<i - 1, i - 1>>]

MCSetups ==
    {Setup(FALSE, OneQueue, None), Setup(FALSE, Queues, None)}
    \cup {Setup(TRUE, OneQueue, ext) :
            ext \in {[i \in Threads |-> <<i, i>>], [i \in Threads |-> <<1, 2>>],
                     [i \in Threads |-> <<2 * i - 1, 2 * i>>]}}
=============================================================================
