--------------------------- MODULE MCConversations ---------------------------
(* TLC instance of Conversations: single translators of each mode, 464XLAT  *)
(* and two SIITs, with addresses of translators, routers, hosts and blocks. *)
EXTENDS Conversations

Server == <<8, 8, 8, 8>>
Neighbour == <<8, 8, 8, 9>>
Private == <<10, 0, 0, 1>>
Loopback == <<127, 0, 0, 1>>
Top == <<240, 0, 0, 1>>
Site4 == <<192, 168, 1, 9>>
Public4 == <<9, 9, 9, 9>>
Router4 == <<9, 9, 9, 1>>
In(prefix, a) == [prefix |-> prefix, low |-> a]

Config(mode, t4, t6, r4, r6, allow) ==
    [mode |-> mode, prefix |-> "64:ff9b::", translator4 |-> t4, translator6 |-> t6,
     router4 |-> r4, router6 |-> r6, allowPrivate |-> allow]

\* Some translators and routers have addresses inside the prefix.
Site6 == In("2001:db8::", Site4)
Clat(r6) == Config("clat", Site4, Site6, Router4, r6, TRUE)
Nat64(r6, allow) == Config("nat64", Public4, Site6, Router4, r6, allow)
Odd == Config("nat64", Public4, In("64:ff9b::", Top), Router4, In("64:ff9b::", Server), TRUE)
Siit(r6, allow) == [Config("siit", Router4, Site6, Router4, r6, allow) EXCEPT !.prefix = "64:ff9b::"]

RouterOutside == In("2001:db8::", Router4)
RouterInside == In("64:ff9b::", Server)

MCConfigs ==
    {Clat(RouterOutside), Clat(RouterInside), Odd}
    \cup {Nat64(r, allow) : r \in {RouterOutside, RouterInside}, allow \in BOOLEAN}
    \cup {Siit(r, allow) : r \in {RouterOutside, RouterInside}, allow \in BOOLEAN}

MCChains ==
    {[family |-> f, translators |-> <<c>>] : f \in {4, 6}, c \in MCConfigs}
    \cup {[family |-> 4, translators |-> <<Clat(r), Nat64(s, allow)>>] :
            r, s \in {RouterOutside, RouterInside}, allow \in BOOLEAN}
    \cup {[family |-> 6, translators |-> <<Siit(RouterOutside, TRUE), Siit(r, FALSE)>>] :
            r \in {RouterOutside, RouterInside}}

MCHosts4 == {Server, Neighbour, Private, Loopback, Top, Site4, Public4, Router4}
MCHosts6 ==
    {Site6} \cup {In("64:ff9b::", a) :
        a \in {Server, Neighbour, Private, Loopback, Top, Router4, Public4}}
=============================================================================
