---------------------------- MODULE ExternalTransport ----------------------------
(****************************************************************************)
(* One translator thread and its external address translator                *)
(* (xlat_addr_external.c below the cache, and the protocol document).  The  *)
(* thread sends a request over a byte stream and blocks for the response;   *)
(* nothing in a response but its identifier and its type says what it       *)
(* answers, so that everything depends on the stream being in step.  A call *)
(* to read() or write() may move a part of a message, time out half way, or *)
(* find that the other side is gone.                                        *)
(*                                                                          *)
(* A message travels as CHUNKS pieces.  Messages carry, as history, the     *)
(* number of the lookup they were made for; the code never sees it.         *)
(****************************************************************************)
EXTENDS Naturals, Sequences, SequencesExt

CONSTANTS
    Transports,      \* which of "socket" (unix and tcp) and "inherited-fds" are tried
    IdSpace,         \* the number of message identifiers; 2^32 in the code
    ServerFaults,    \* what the server may do wrong
    MaxLookups       \* bounds the behaviours

CHUNKS == 2

MainTypes == {"4to6_main", "6to4_main"}
InnerTypes == {"4to6_icmp_error", "6to4_icmp_error"}
Types == MainTypes \cup InnerTypes

Results == {"addresses", "unusable", "padded", "error", "icmp", "invalid"}

ASSUME TransportAssumption ==
    /\ Transports \subseteq {"socket", "inherited-fds"}
    /\ IdSpace \in Nat \ {0}
    /\ ServerFaults \subseteq {"duplicate", "malformed", "gone"}
    /\ MaxLookups \in Nat

VARIABLES
    (* The thread. *)
    phase,         \* where it is
    type,          \* the message type of the current lookup
    identifier,    \* external_addr_xlat_state->message_identifier
    id,            \* message_identifier of _do_external_address_translation()
    moved,         \* how many chunks of the message have been written or read
    inbox,         \* the chunks read
    open,          \* are the file descriptors open?
    outcome,       \* how the lookup ended
    (* The connection and the server behind it. *)
    transport,     \* addressing.external.transport; it does not change
    up, down,      \* the two directions of the stream
    asked,         \* the requests the server has read and not answered
    last,          \* its last response
    gone,          \* has it closed its end, or died?
    (* History. *)
    lookup,        \* the number of the current or last lookup
    answers,       \* the lookup for which the accepted response was made
    faulty         \* has the server done something wrong?

thread == <<phase, type, identifier, id, moved, inbox, open, outcome, lookup, answers>>
peer == <<transport, up, down, asked, last, gone, faulty>>
vars == <<thread, peer>>

-----------------------------------------------------------------------------
(* Messages.                                                                *)

Request(n, i, t) == [for |-> n, id |-> i, type |-> t, result |-> "request"]
Response(q, result) == [q EXCEPT !.result = result]

NoMessage == Request(0, 0, "4to6_main")

Chunks(m) == [n \in 1..CHUNKS |-> [message |-> m, chunk |-> n]]

\* The chunks are those of one message, in order.
IsMessage(chunks) ==
    /\ Len(chunks) = CHUNKS
    /\ chunks = Chunks(chunks[1].message)

\* What a server that keeps to the protocol may answer; whether addresses are
\* usable in a packet is none of its business.
ProperResults(t) == {"addresses", "unusable", "error"} \cup {r \in {"icmp"} : t \in MainTypes}

\* What it may not answer: anything else, IPv4 addresses with more than 4
\* bytes, an ICMP error for a packet inside an ICMP error message.
WrongResults(t) ==
    {"invalid"} \cup {r \in {"padded"} : t \in {"6to4_main", "6to4_icmp_error"}}
                \cup {r \in {"icmp"} : t \in InnerTypes}

-----------------------------------------------------------------------------
Init ==
    /\ phase = "idle"
    /\ type = "4to6_main"
    /\ identifier \in 0..(IdSpace - 1)
    /\ id = 0
    /\ moved = 0
    /\ inbox = <<>>
    /\ transport \in Transports
    /\ open = (transport = "inherited-fds")
    /\ outcome = "none"
    /\ up = <<>> /\ down = <<>>
    /\ asked = <<>>
    /\ last = NoMessage
    /\ gone = FALSE
    /\ lookup = 0
    /\ answers = 0
    /\ faulty = FALSE

\* A packet, or the packet in an ICMP error message, needs addresses that are
\* not in the cache.
Ask(t) ==
    /\ phase = "idle"
    /\ lookup < MaxLookups
    /\ phase' = "ensure"
    /\ type' = t
    /\ outcome' = "none"
    /\ lookup' = lookup + 1
    /\ answers' = 0
    /\ UNCHANGED <<identifier, id, moved, inbox, open, peer>>

\* The lookup ends with "return false", the variables of its calls disappear.
Fail(how) ==
    /\ phase' = "idle"
    /\ outcome' = how
    /\ id' = 0 /\ moved' = 0 /\ inbox' = <<>>

(* _ensure_fds_are_open() *)

FdsOpen ==
    /\ phase = "ensure"
    /\ open
    /\ phase' = "construct"
    /\ UNCHANGED <<type, identifier, id, moved, inbox, open, outcome, lookup, answers, peer>>

\* A new connection is another stream, to a server that knows nothing of the
\* requests of the old one.
Connect ==
    /\ phase = "ensure"
    /\ ~open
    /\ transport = "socket"
    /\ open' = TRUE
    /\ phase' = "construct"
    /\ up' = <<>> /\ down' = <<>> /\ asked' = <<>> /\ last' = NoMessage /\ gone' = FALSE
    /\ UNCHANGED <<type, identifier, id, moved, inbox, outcome, lookup, answers, transport, faulty>>

ConnectFails ==
    /\ phase = "ensure"
    /\ ~open
    /\ transport = "socket"
    /\ Fail("dropped")
    /\ UNCHANGED <<type, identifier, open, lookup, answers, peer>>

\* log__thread_crash()
NoMoreFds ==
    /\ phase = "ensure"
    /\ ~open
    /\ transport = "inherited-fds"
    /\ phase' = "crashed"
    /\ UNCHANGED <<type, identifier, id, moved, inbox, open, outcome, lookup, answers, peer>>

(* _construct_and_send_request_to_fd() *)

NextIdentifier == (identifier + 1) % IdSpace

Construct ==
    /\ phase = "construct"
    /\ id' = identifier
    /\ identifier' = NextIdentifier
    /\ phase' = "send"
    /\ UNCHANGED <<type, moved, inbox, open, outcome, lookup, answers, peer>>

\* Addresses that must not be in a packet are not even asked for; the
\* identifier has been taken.
RefuseToAsk ==
    /\ phase = "construct"
    /\ type \in MainTypes
    /\ identifier' = NextIdentifier
    /\ Fail("dropped")
    /\ UNCHANGED <<type, open, lookup, answers, peer>>

\* Variation: what is left after the first call is not written.
WriteOnce(n) ==
    /\ phase = "send"
    /\ n <= CHUNKS - moved
    /\ up' = up \o SubSeq(Chunks(Request(lookup, id, type)), moved + 1, moved + n)
    /\ phase' = "receive"
    /\ UNCHANGED <<type, identifier, id, moved, inbox, open, outcome, lookup, answers,
                   transport, down, asked, last, gone, faulty>>

\* xlat_interrupt__write() takes as many bytes as it can, for a while even
\* when there is nobody left to read them.
Write(n) ==
    /\ phase = "send"
    /\ n <= CHUNKS - moved
    /\ up' = up \o SubSeq(Chunks(Request(lookup, id, type)), moved + 1, moved + n)
    /\ IF moved + n = CHUNKS
       THEN phase' = "receive" /\ moved' = 0
       ELSE moved' = moved + n /\ UNCHANGED phase
    /\ UNCHANGED <<type, identifier, id, inbox, open, outcome, lookup, answers,
                   transport, down, asked, last, gone, faulty>>

\* A call fails because the server is gone or, for a socket, times out.
MayFail == gone \/ transport = "socket"

\* Variation: the rest of the request is not sent, the connection is kept.
WriteFailsKeepsFds ==
    /\ phase = "send"
    /\ MayFail
    /\ Fail("dropped")
    /\ UNCHANGED <<type, identifier, open, lookup, answers, peer>>

\* Variation: after a failure the request is sent once more, from its start.
WriteFailsTriedAgain ==
    /\ phase = "send"
    /\ MayFail
    /\ moved' = 0
    /\ UNCHANGED <<phase, type, identifier, id, inbox, open, outcome, lookup, answers, peer>>

WriteFails ==
    /\ phase = "send"
    /\ MayFail
    /\ open' = FALSE
    /\ Fail("dropped")
    /\ UNCHANGED <<type, identifier, lookup, answers, peer>>

(* _recv_and_parse_response_from_fd() *)

Read(n) ==
    /\ phase = "receive"
    /\ n <= CHUNKS - moved
    /\ n <= Len(down)
    /\ inbox' = inbox \o SubSeq(down, 1, n)
    /\ down' = SubSeq(down, n + 1, Len(down))
    /\ IF moved + n = CHUNKS
       THEN phase' = "parse" /\ moved' = 0
       ELSE moved' = moved + n /\ UNCHANGED phase
    /\ UNCHANGED <<type, identifier, id, open, outcome, lookup, answers,
                   transport, up, asked, last, gone, faulty>>

\* Variation: a late response is waited for with the next request.
ReadFailsKeepsFds ==
    /\ phase = "receive"
    /\ MayFail
    /\ Fail("dropped")
    /\ UNCHANGED <<type, identifier, open, lookup, answers, peer>>

\* The end of the stream, an error, or a timeout of SO_RCVTIMEO.
ReadFails ==
    /\ phase = "receive"
    /\ MayFail
    /\ open' = FALSE
    /\ Fail("dropped")
    /\ UNCHANGED <<type, identifier, lookup, answers, peer>>

\* Variation: whatever comes back is taken for the answer.
IsResponseAnyIdentifier(m) == IsMessage(inbox) /\ m.result # "invalid"

\* The magic byte and the version are right, and so is the identifier.
IsResponse(m) == IsMessage(inbox) /\ m.result # "invalid" /\ m.id = id

\* Variation: the connection is given up whenever there is no translation.
KeepsConnectionIfTranslated(m) ==
    /\ IsResponse(m)
    /\ m.type = type
    /\ m.result = "addresses"

\* Responses after which the file descriptors stay open: addresses, a refusal
\* to give any, and addresses which must not be used.  Every other response
\* is a protocol error.
KeepsConnection(m) ==
    /\ IsResponse(m)
    /\ m.type = type
    /\ \/ m.result \in {"addresses", "error", "unusable"}
       \/ m.result = "icmp" /\ type \in MainTypes

\* The addresses are used.  Those inside an ICMP error message may be any.
Translates(m) ==
    /\ IsResponse(m)
    /\ m.type = type
    /\ \/ m.result = "addresses"
       \/ m.result = "unusable" /\ type \in InnerTypes

\* router_ipv4/6: the source of the packet is told.
IsUnreachable(m) ==
    /\ IsResponse(m)
    /\ m.type = type
    /\ m.result = "icmp"
    /\ type \in MainTypes

Parse ==
    /\ phase = "parse"
    /\ LET m == inbox[1].message IN
         /\ open' = KeepsConnection(m)
         /\ IF Translates(m) THEN Fail("translated") /\ answers' = m.for
            ELSE IF IsUnreachable(m) THEN Fail("unreachable") /\ answers' = m.for
            ELSE Fail("dropped") /\ UNCHANGED answers
    /\ UNCHANGED <<type, identifier, lookup, peer>>

-----------------------------------------------------------------------------
(* The server.  It may be as slow as it likes.                              *)

ServerReads ==
    /\ ~gone
    /\ Len(up) >= CHUNKS
    /\ asked' = Append(asked, up[1].message)
    /\ up' = SubSeq(up, CHUNKS + 1, Len(up))
    /\ UNCHANGED <<thread, transport, down, last, gone, faulty>>

Respond ==
    /\ ~gone
    /\ asked # <<>>
    /\ \E result \in ProperResults(Head(asked).type) :
         /\ last' = Response(Head(asked), result)
         /\ down' = down \o Chunks(Response(Head(asked), result))
    /\ asked' = Tail(asked)
    /\ UNCHANGED <<thread, transport, up, gone, faulty>>

RespondMalformed ==
    /\ "malformed" \in ServerFaults
    /\ ~gone
    /\ asked # <<>>
    /\ \E result \in WrongResults(Head(asked).type) :
         /\ last' = Response(Head(asked), result)
         /\ down' = down \o Chunks(Response(Head(asked), result))
    /\ asked' = Tail(asked)
    /\ faulty' = TRUE
    /\ UNCHANGED <<thread, transport, up, gone>>

\* The last response is sent once more.
Duplicate ==
    /\ "duplicate" \in ServerFaults
    /\ ~gone
    /\ last # NoMessage
    /\ Len(down) < 2 * CHUNKS
    /\ down' = down \o Chunks(last)
    /\ faulty' = TRUE
    /\ UNCHANGED <<thread, transport, up, asked, last, gone>>

\* The server closes its end or dies, perhaps half way through a response.
Leave ==
    /\ "gone" \in ServerFaults
    /\ ~gone
    /\ gone' = TRUE
    /\ faulty' = TRUE
    /\ \E n \in 0..Len(down) : down' = SubSeq(down, 1, n)
    /\ UNCHANGED <<thread, transport, up, asked, last>>

-----------------------------------------------------------------------------
ThreadStep ==
    \/ FdsOpen \/ Connect \/ ConnectFails \/ NoMoreFds
    \/ Construct \/ RefuseToAsk
    \/ \E n \in 1..CHUNKS : Write(n) \/ Read(n)
    \/ WriteFails \/ ReadFails
    \/ Parse

ServerStep == ServerReads \/ Respond

Next ==
    \/ \E t \in Types : Ask(t)
    \/ ThreadStep
    \/ ServerStep \/ RespondMalformed \/ Duplicate \/ Leave

Spec == Init /\ [][Next]_vars

\* The thread runs, and a blocking call on a socket ends after its timeout;
\* inherited file descriptors have none, so that their server has to answer.
FairSpec ==
    /\ Spec
    /\ WF_vars(ThreadStep)
    /\ WF_vars(transport = "inherited-fds" /\ ServerStep)

-----------------------------------------------------------------------------
Message == [for : 0..MaxLookups, id : 0..(IdSpace - 1), type : Types,
            result : Results \cup {"request"}]

Chunk == [message : Message, chunk : 1..CHUNKS]

\* Every variable keeps its type.
TypeOK ==
    /\ phase \in {"idle", "ensure", "construct", "send", "receive", "parse", "crashed"}
    /\ type \in Types
    /\ identifier \in 0..(IdSpace - 1)
    /\ id \in 0..(IdSpace - 1)
    /\ moved \in 0..(CHUNKS - 1)
    /\ inbox \in Seq(Chunk)
    /\ open \in BOOLEAN
    /\ outcome \in {"none", "translated", "unreachable", "dropped"}
    /\ transport \in Transports
    /\ up \in Seq(Chunk)
    /\ down \in Seq(Chunk)
    /\ asked \in Seq(Message)
    /\ last \in Message
    /\ gone \in BOOLEAN
    /\ lookup \in 0..MaxLookups
    /\ answers \in 0..MaxLookups
    /\ faulty \in BOOLEAN

\* Between two lookups an open connection to a server that has kept to the
\* protocol carries nothing, and the server owes no answer: no part of an old
\* response is left for the next lookup to take for its own.
InStep ==
    open /\ phase = "idle" /\ ~faulty =>
        up = <<>> /\ down = <<>> /\ asked = <<>>

\* Whatever fails and is retried, a server never reads the beginning of one
\* request followed by the beginning of another.
RequestsAreWhole ==
    Len(up) >= CHUNKS => IsMessage(SubSeq(up, 1, CHUNKS))

\* A thread with inherited file descriptors gives them up, and crashes for
\* want of them, only if the server has broken the protocol or is gone: no
\* answer a proper server may give, addresses nobody can use included, ends
\* the process.
CrashNeedsFault == phase = "crashed" => faulty

\* While a thread waits, there is something to wait for: a part of the answer,
\* a request the server has yet to answer, or one it has yet to read.  Thread
\* and server never wait for each other.
AnswerIsDue ==
    open /\ ~gone /\ phase = "receive" =>
        down # <<>> \/ asked # <<>> \/ Len(up) >= CHUNKS

\* How many more steps the lookup may take.
StepsLeft ==
    CASE phase = "ensure" -> 7
      [] phase = "construct" -> 6
      [] phase = "send" -> 5 - moved
      [] phase = "receive" -> 3 - moved
      [] phase = "parse" -> 1
      [] OTHER -> 0

\* Every step of the thread brings the end of the lookup closer: no call is
\* repeated unless it has moved something, nothing failed is tried again.
\* Nobody else keeps a lookup busy.
LookupAdvances ==
    [][/\ ThreadStep => StepsLeft' < StepsLeft
       /\ phase # "idle" => StepsLeft' <= StepsLeft]_vars

\* A lookup as the packet translation sees it.
Lookup == INSTANCE AddressLookup WITH
    status <- CASE phase = "idle" -> "free"
                [] phase = "crashed" -> "down"
                [] OTHER -> "busy"

\* Every lookup ends, and if it ends with addresses, or with an ICMP error to
\* the source, then on the strength of a response to that very lookup.
ImplementsLookup == Lookup!Spec
=============================================================================
