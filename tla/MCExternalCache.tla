----------------------------- MODULE MCExternalCache -----------------------------
(* TLC instance of ExternalCache: a main cache of two entries, of which one is *)
(* shared by two pairs, and an ICMP error cache of one entry.                  *)
EXTENDS ExternalCache

CONSTANTS a4, b4, z4, x6, y6, z6

MCPairs4 == {a4, b4, z4}
MCPairs6 == {x6, y6, z6}
MCUsable == {a4, b4, x6, y6}
MCHash(p, n) == (IF p \in {a4, x6} THEN 1 ELSE 0) % n
=============================================================================
