------------------------------ MODULE AddressLookup ------------------------------
(****************************************************************************)
(* What the packet translation expects of an external address lookup        *)
(* (xlat_addr_external.h): it asks for one pair of addresses at a time,     *)
(* blocks until the lookup has ended, and then either has addresses the     *)
(* server chose for this very lookup, or has to drop the packet, in which   *)
(* case the source may have been sent an ICMP error, also on the server's   *)
(* word.  Instead of ending a lookup may take its thread down.              *)
(****************************************************************************)
EXTENDS Naturals

CONSTANTS MainTypes, InnerTypes, MaxLookups

VARIABLES
    lookup,     \* the number of the current or last lookup
    type,       \* and its message type
    status,     \* "free": it has ended; "busy"; "down": the thread crashed
    outcome,    \* how it ended
    answers     \* the lookup the server gave the answer to, or 0

vars == <<lookup, type, status, outcome, answers>>

Init ==
    /\ lookup = 0
    /\ type \in MainTypes
    /\ status = "free"
    /\ outcome = "none"
    /\ answers = 0

Ask ==
    /\ status = "free"
    /\ lookup < MaxLookups
    /\ lookup' = lookup + 1
    /\ type' \in MainTypes \cup InnerTypes
    /\ status' = "busy"
    /\ outcome' = "none"
    /\ answers' = 0

Translate ==
    /\ status = "busy"
    /\ status' = "free"
    /\ outcome' = "translated"
    /\ answers' = lookup
    /\ UNCHANGED <<lookup, type>>

\* Only the addresses of a whole packet can be unreachable.
Unreachable ==
    /\ status = "busy"
    /\ type \in MainTypes
    /\ status' = "free"
    /\ outcome' = "unreachable"
    /\ answers' = lookup
    /\ UNCHANGED <<lookup, type>>

Drop ==
    /\ status = "busy"
    /\ status' = "free"
    /\ outcome' = "dropped"
    /\ answers' = 0
    /\ UNCHANGED <<lookup, type>>

Crash ==
    /\ status = "busy"
    /\ status' = "down"
    /\ UNCHANGED <<lookup, type, outcome, answers>>

End == Translate \/ Unreachable \/ Drop \/ Crash

Next == Ask \/ End

\* No lookup blocks its thread for ever.
Spec == Init /\ [][Next]_vars /\ WF_vars(End)
=============================================================================
