------------------------------- MODULE MCIntegrity -------------------------------
(* TLC instance of Integrity: bytes of four values, so that sums fold once, *)
(* twice or not at all, and data of even and odd sizes.                     *)
EXTENDS Integrity

MCAddresses4 == {<<0, 0>>, <<3, 3>>, <<1, 2>>, <<0, 3>>}
MCPrefix == <<2, 3>>
MCData == UNION {[1..n -> {0, 1, 3}] : n \in {2, 3}} \cup {<<0>>, <<2>>}
=============================================================================
