----------------------- MODULE ExternalTransportProofs -----------------------
(***************************************************************************)
(* ExternalTransport for any number of identifiers and lookups and for any *)
(* combination of transports and faults.  A server that keeps to the       *)
(* protocol finds the thread in step and does not make it crash, and the   *)
(* thread uses only the answers to its own lookups, as AddressLookup says. *)
(* The last has two arguments: where nobody repeats messages, none is left *)
(* over for the next lookup; where a server may repeat them, an identifier *)
(* does not come back while there are enough of them.                      *)
(***************************************************************************)
EXTENDS ExternalTransport, SequenceTheorems, TLAPS

(***************************************************************************)
(* The invariant.                                                          *)
(***************************************************************************)

Sending == {"send", "receive", "parse"}

\* What the thread has of a message, and that it needs a connection for it.
ThreadInv ==
    /\ phase \in Sending \cup {"construct"} => open
    /\ phase \notin {"send", "receive"} => moved = 0
    /\ phase # "idle" => answers = 0
    /\ Len(inbox) = IF phase = "receive" THEN moved ELSE IF phase = "parse" THEN CHUNKS ELSE 0

First(m) == [message |-> m, chunk |-> 1]
Second(m) == [message |-> m, chunk |-> 2]

\* Requests follow one another; only the last one may be incomplete, while it
\* is being sent or when its connection is gone.
UpInv ==
    /\ Len(up) > 0 => up[1].chunk = 1
    /\ \A k \in 1..(Len(up) - 1) :
         IF up[k].chunk = 1 THEN up[k + 1] = Second(up[k].message) ELSE up[k + 1].chunk = 1
    /\ open => IF phase = "send" /\ moved = 1
               THEN Len(up) > 0 /\ up[Len(up)] = First(Request(lookup, id, type))
               ELSE Len(up) > 0 => up[Len(up)].chunk = 2

\* Has no message been repeated?
NoRepeat == "duplicate" \notin ServerFaults \/ ~faulty

IsCurrent(m) == m.for = lookup /\ m.id = id /\ m.type = type

AllCurrent ==
    /\ \A k \in 1..Len(up) : IsCurrent(up[k].message)
    /\ \A k \in 1..Len(asked) : IsCurrent(asked[k])
    /\ \A k \in 1..Len(down) : IsCurrent(down[k].message)
    /\ \A k \in 1..Len(inbox) : IsCurrent(inbox[k].message)

\* Without repetition there is only the current lookup's message on its way.
StreamInv ==
    NoRepeat /\ open =>
        /\ phase \notin Sending => up = <<>> /\ asked = <<>> /\ down = <<>>
        /\ phase = "send" => asked = <<>> /\ down = <<>> /\ Len(up) = moved
        /\ phase \in {"receive", "parse"} =>
             Len(up) + CHUNKS * Len(asked) + Len(down) + Len(inbox) <= CHUNKS
        /\ AllCurrent

\* The answer, as far as it has been read, and what is left of it.
Piece(k) == IF k <= Len(inbox) THEN inbox[k] ELSE down[k - Len(inbox)]
Pieces == Len(inbox) + Len(down)

\* The answer of a proper server is one message.
ProperPieces ==
    \A k \in 1..Pieces :
        /\ Piece(k).chunk = k
        /\ Piece(k).message = Piece(1).message
        /\ Piece(k).message.result \in ProperResults(type)

\* It gives no reason to give up a connection.
ProperInv ==
    ~faulty =>
        /\ ~gone
        /\ transport = "inherited-fds" => open
        /\ phase # "crashed"
        /\ open /\ phase \in {"receive", "parse"} => ProperPieces

\* Identifier i is k further than j, and has wrapped around at most once.
IsFurther(i, j, k) == i = j + k \/ i = j + k - IdSpace

\* How many identifiers may have been taken, by phase p of lookup n, since a
\* message got its own: at least one for it, one for the current lookup if it
\* is another, and no more than one in each lookup.
AtLeast(m, p, n) == IF p \in Sending /\ m.for < n THEN 2 ELSE 1
AtMost(m, p, n) == (n - m.for) + (IF p \in {"ensure", "construct"} THEN 0 ELSE 1)

\* The age of a message shows in its identifier.
IsDated(m, p, n, i) ==
    /\ m.for \in 1..n
    /\ \E k \in Nat : AtLeast(m, p, n) <= k /\ k <= AtMost(m, p, n) /\ IsFurther(i, m.id, k)

\* The messages that may still be read.
InUp == {up[k].message : k \in 1..Len(up)}
InAsked == {asked[k] : k \in 1..Len(asked)}
InDown == {down[k].message : k \in 1..Len(down)}
InInbox == {inbox[k].message : k \in 1..Len(inbox)}
InLast == {last} \ {NoMessage}
OnTheWay == InUp \cup InAsked \cup InDown \cup InInbox \cup InLast

DatesInv ==
    /\ phase \in Sending => IsFurther(identifier, id, 1)
    /\ phase # "idle" => lookup > 0
    /\ \A m \in OnTheWay : IsDated(m, phase, lookup, identifier)

(***************************************************************************)
(* Messages and their pieces.                                              *)
(***************************************************************************)

\* Messages are records of four fields.
LEMMA Messages ==
    /\ NoMessage \in Message
    /\ \A n \in 0..MaxLookups, i \in 0..(IdSpace - 1), t \in Types : Request(n, i, t) \in Message
    /\ \A m \in Message, r \in Results :
         /\ Response(m, r) \in Message
         /\ Response(m, r).result = r
         /\ Response(m, r).for = m.for /\ Response(m, r).id = m.id /\ Response(m, r).type = m.type
BY TransportAssumption
   DEF Message, NoMessage, Request, Response, Types, MainTypes, InnerTypes

\* What a server may answer are results.
LEMMA ResultsTyped ==
    \A t \in Types : ProperResults(t) \subseteq Results /\ WrongResults(t) \subseteq Results
BY DEF ProperResults, WrongResults, Results, Types, MainTypes, InnerTypes

\* A message travels in two pieces.
LEMMA TwoPieces ==
    ASSUME NEW m \in Message
    PROVE  /\ Chunks(m) \in Seq(Chunk)
           /\ Len(Chunks(m)) = 2
           /\ Chunks(m)[1] = First(m)
           /\ Chunks(m)[2] = Second(m)
<1>1. Chunks(m) \in [1..2 -> Chunk]
  BY DEF Chunks, Chunk, CHUNKS
<1>2. Chunks(m) \in Seq(Chunk)
  BY <1>1, SeqDef
<1>3. Len(Chunks(m)) = 2
  BY <1>1
<1>4. Chunks(m)[1] = First(m) /\ Chunks(m)[2] = Second(m)
  BY DEF Chunks, First, Second, CHUNKS
<1> QED
  BY <1>2, <1>3, <1>4

\* A part of a sequence.
LEMMA Part ==
    ASSUME NEW S, NEW s \in Seq(S), NEW a \in Nat \ {0}, NEW b \in Nat, b <= Len(s)
    PROVE  /\ SubSeq(s, a, b) \in Seq(S)
           /\ Len(SubSeq(s, a, b)) = IF a <= b THEN b - a + 1 ELSE 0
           /\ \A k \in 1..(b - a + 1) : SubSeq(s, a, b)[k] = s[a + k - 1]
<1>1. \A i \in a..b : s[i] \in S
  BY ElementOfSeq
<1> QED
  BY <1>1, SubSeqProperties

\* What is left of a sequence.
LEMMA Rest ==
    ASSUME NEW S, NEW s \in Seq(S), NEW n \in Nat, n <= Len(s)
    PROVE  /\ SubSeq(s, n + 1, Len(s)) \in Seq(S)
           /\ Len(SubSeq(s, n + 1, Len(s))) = Len(s) - n
           /\ \A k \in 1..(Len(s) - n) : SubSeq(s, n + 1, Len(s))[k] = s[k + n]
<1>1. PICK l \in Nat : l = Len(s)
  BY LenProperties
<1>2. n + 1 \in Nat \ {0} /\ l <= Len(s) /\ n <= l
  BY <1>1
<1> DEFINE rest == SubSeq(s, n + 1, l)
<1>3. /\ rest \in Seq(S)
      /\ Len(rest) = IF n + 1 <= l THEN l - (n + 1) + 1 ELSE 0
      /\ \A k \in 1..(l - (n + 1) + 1) : rest[k] = s[(n + 1) + k - 1]
  BY <1>2, Part
<1> HIDE DEF rest
<1>4. Len(rest) = l - n
  BY <1>2, <1>3
<1>5. \A k \in 1..(l - n) : k \in 1..(l - (n + 1) + 1) /\ (n + 1) + k - 1 = k + n
  BY <1>2
<1>6. \A k \in 1..(l - n) : rest[k] = s[k + n]
  BY <1>3, <1>5, Zenon
<1> QED
  BY <1>1, <1>3, <1>4, <1>6, Zenon DEF rest

\* A message is sent after what has been sent before.
LEMMA Extended ==
    ASSUME NEW s \in Seq(Chunk), NEW m \in Message
    PROVE  /\ Len(s \o Chunks(m)) = Len(s) + 2
           /\ \A k \in 1..Len(s) : (s \o Chunks(m))[k] = s[k]
           /\ (s \o Chunks(m))[Len(s) + 1] = First(m)
           /\ (s \o Chunks(m))[Len(s) + 2] = Second(m)
<1> DEFINE t == Chunks(m)
<1>1. t \in Seq(Chunk) /\ Len(t) = 2 /\ t[1] = First(m) /\ t[2] = Second(m)
  BY TwoPieces
<1> HIDE DEF t
<1>2. /\ Len(s \o t) = Len(s) + 2
      /\ \A k \in 1..Len(s) : (s \o t)[k] = s[k]
      /\ (s \o t)[Len(s) + 1] = t[1]
      /\ (s \o t)[Len(s) + 2] = t[2]
  <2>1. Len(s) \in Nat
    BY LenProperties
  <2>2. /\ Len(s \o t) = Len(s) + Len(t)
        /\ \A k \in 1..(Len(s) + Len(t)) : (s \o t)[k] = IF k <= Len(s) THEN s[k] ELSE t[k - Len(s)]
    BY <1>1, ConcatProperties
  <2>3. \A k \in 1..Len(s) : (s \o t)[k] = s[k]
    BY <1>1, <2>1, <2>2
  <2>4. (s \o t)[Len(s) + 1] = t[1] /\ (s \o t)[Len(s) + 2] = t[2]
    <3>1. /\ Len(s) + 1 \in 1..(Len(s) + Len(t)) /\ ~(Len(s) + 1 <= Len(s)) /\ (Len(s) + 1) - Len(s) = 1
          /\ Len(s) + 2 \in 1..(Len(s) + Len(t)) /\ ~(Len(s) + 2 <= Len(s)) /\ (Len(s) + 2) - Len(s) = 2
      BY <1>1, <2>1
    <3> QED
      BY <2>2, <3>1
  <2> QED
    BY <1>1, <2>2, <2>3, <2>4
<1> QED
  BY <1>1, <1>2 DEF t

(***************************************************************************)
(* Types, and what the thread has of a message.                            *)
(***************************************************************************)

\* Whatever fails, nothing is left of the message.
LEMMA FailTyped ==
    ASSUME NEW how \in {"translated", "unreachable", "dropped"}, Fail(how), TypeOK
    PROVE  /\ phase' = "idle" /\ moved' = 0 /\ inbox' = <<>> /\ Len(inbox') = 0
           /\ id' \in 0..(IdSpace - 1)
           /\ inbox' \in Seq(Chunk)
           /\ outcome' \in {"none", "translated", "unreachable", "dropped"}
BY TransportAssumption, EmptySeq DEF Fail, TypeOK

\* The program starts with the right types.
LEMMA InitTyped == Init => TypeOK /\ ThreadInv
<1> SUFFICES ASSUME Init PROVE TypeOK /\ ThreadInv
  OBVIOUS
<1>1. inbox \in Seq(Chunk) /\ up \in Seq(Chunk) /\ down \in Seq(Chunk) /\ asked \in Seq(Message)
  BY EmptySeq DEF Init
<1>2. last \in Message
  BY Messages DEF Init
<1>3. lookup \in 0..MaxLookups /\ answers \in 0..MaxLookups /\ id \in 0..(IdSpace - 1)
  BY TransportAssumption DEF Init
<1>4. Len(inbox) = 0 /\ type \in Types
  BY EmptySeq DEF Init, Types, MainTypes
<1>5. open \in BOOLEAN
  <2>1. CASE transport = "inherited-fds"
    BY <2>1 DEF Init
  <2>2. CASE transport # "inherited-fds"
    BY <2>2 DEF Init
  <2> QED
    BY <2>1, <2>2
<1>6. /\ phase = "idle" /\ outcome = "none" /\ moved = 0
      /\ identifier \in 0..(IdSpace - 1)
      /\ transport \in Transports
      /\ gone \in BOOLEAN /\ faulty \in BOOLEAN
  BY DEF Init
<1>7. TypeOK
  BY <1>1, <1>2, <1>3, <1>4, <1>5, <1>6 DEF TypeOK, CHUNKS
<1> QED
  BY <1>4, <1>6, <1>7 DEF ThreadInv, Sending

\* The thread's own steps, but for those that move a message.
LEMMA PlainTyped ==
    TypeOK /\ ThreadInv
    /\ (\/ \E t \in Types : Ask(t)
        \/ FdsOpen \/ ConnectFails \/ NoMoreFds \/ Construct \/ RefuseToAsk
        \/ WriteFails \/ ReadFails)
    => TypeOK' /\ ThreadInv'
<1> SUFFICES ASSUME TypeOK, ThreadInv PROVE
      (\/ \E t \in Types : Ask(t)
       \/ FdsOpen \/ ConnectFails \/ NoMoreFds \/ Construct \/ RefuseToAsk
       \/ WriteFails \/ ReadFails)
      => TypeOK' /\ ThreadInv'
  OBVIOUS
<1>1. ASSUME NEW t \in Types, Ask(t) PROVE TypeOK' /\ ThreadInv'
  BY <1>1, TransportAssumption DEF Ask, TypeOK, ThreadInv, peer, Sending
<1>2. CASE FdsOpen
  BY <1>2 DEF FdsOpen, TypeOK, ThreadInv, peer, Sending
<1>3. CASE NoMoreFds
  BY <1>3 DEF NoMoreFds, TypeOK, ThreadInv, peer, Sending
<1>4. NextIdentifier \in 0..(IdSpace - 1)
  BY TransportAssumption DEF NextIdentifier, TypeOK
<1>5. CASE Construct
  BY <1>4, <1>5 DEF Construct, TypeOK, ThreadInv, peer, Sending
<1>6. CASE RefuseToAsk
  BY <1>4, <1>6, FailTyped DEF RefuseToAsk, TypeOK, ThreadInv, peer, Sending
<1>7. CASE ConnectFails \/ WriteFails \/ ReadFails
  <2>1. Fail("dropped") /\ open' \in BOOLEAN
    BY <1>7 DEF ConnectFails, WriteFails, ReadFails, TypeOK
  <2>2. UNCHANGED <<type, identifier, lookup, answers, peer>>
    BY <1>7 DEF ConnectFails, WriteFails, ReadFails
  <2>3. /\ phase' = "idle" /\ moved' = 0 /\ Len(inbox') = 0
        /\ id' \in 0..(IdSpace - 1)
        /\ inbox' \in Seq(Chunk)
        /\ outcome' \in {"none", "translated", "unreachable", "dropped"}
    BY <2>1, FailTyped
  <2>4. TypeOK'
    BY <2>1, <2>2, <2>3 DEF TypeOK, peer, CHUNKS
  <2> QED
    BY <2>3, <2>4 DEF ThreadInv, Sending
<1> QED
  BY <1>1, <1>2, <1>3, <1>5, <1>6, <1>7

\* A new connection is empty.
LEMMA ConnectTyped == TypeOK /\ ThreadInv /\ Connect => TypeOK' /\ ThreadInv'
BY EmptySeq, Messages DEF Connect, TypeOK, ThreadInv, peer, Sending

\* What is written is a part of the request.
LEMMA WriteTyped ==
    ASSUME TypeOK, ThreadInv, NEW n \in 1..CHUNKS, Write(n)
    PROVE  TypeOK' /\ ThreadInv'
<1> DEFINE request == Request(lookup, id, type)
           part == SubSeq(Chunks(request), moved + 1, moved + n)
<1>1. request \in Message
  BY Messages DEF TypeOK
<1>2. part \in Seq(Chunk)
  BY <1>1, TwoPieces, Part DEF Write, TypeOK, CHUNKS
<1>3. up' \in Seq(Chunk)
  BY <1>2, ConcatProperties DEF Write, TypeOK
<1>4. phase' \in {"send", "receive"} /\ moved' \in 0..(CHUNKS - 1) /\ (phase' = "receive" => moved' = 0)
  BY DEF Write, TypeOK, CHUNKS
<1> QED
  BY <1>3, <1>4 DEF Write, TypeOK, ThreadInv, Sending

\* So is what is read.
LEMMA ReadTyped ==
    ASSUME TypeOK, ThreadInv, NEW n \in 1..CHUNKS, Read(n)
    PROVE  TypeOK' /\ ThreadInv'
<1>1. /\ SubSeq(down, 1, n) \in Seq(Chunk)
      /\ Len(SubSeq(down, 1, n)) = n
  BY Part DEF Read, TypeOK, CHUNKS
<1>2. inbox' \in Seq(Chunk) /\ Len(inbox') = moved + n
  BY <1>1, ConcatProperties DEF Read, TypeOK, ThreadInv
<1>3. down' \in Seq(Chunk)
  <2>1. n + 1 \in Nat \ {0} /\ Len(down) \in Nat
    BY LenProperties DEF TypeOK, CHUNKS
  <2> QED
    BY <2>1, Part DEF Read, TypeOK
<1>4. IF moved + n = CHUNKS THEN phase' = "parse" /\ moved' = 0
      ELSE phase' = "receive" /\ moved' = moved + n /\ moved' \in 0..(CHUNKS - 1)
  BY DEF Read, TypeOK, CHUNKS
<1> QED
  BY <1>2, <1>3, <1>4 DEF Read, TypeOK, ThreadInv, Sending, CHUNKS

\* The message that is parsed is there.
LEMMA ParsedMessage ==
    ASSUME TypeOK, ThreadInv, phase = "parse"
    PROVE  inbox[1].message \in Message /\ inbox[1].message.for \in 0..MaxLookups
<1>1. inbox[1] \in Chunk
  <2>1. inbox \in Seq(Chunk) /\ Len(inbox) = 2
    BY DEF TypeOK, ThreadInv, CHUNKS
  <2>2. 1 \in 1..Len(inbox)
    BY <2>1
  <2> QED
    BY <2>1, <2>2, ElementOfSeq
<1> QED
  BY <1>1 DEF Chunk, Message

\* A response ends the lookup, whatever is in it.
LEMMA ParseTyped == TypeOK /\ ThreadInv /\ Parse => TypeOK' /\ ThreadInv'
<1> SUFFICES ASSUME TypeOK, ThreadInv, Parse PROVE TypeOK' /\ ThreadInv'
  OBVIOUS
<1>1. PICK how \in {"translated", "unreachable", "dropped"} : Fail(how)
  BY DEF Parse
<1>2. answers' \in 0..MaxLookups
  BY ParsedMessage DEF Parse, TypeOK
<1>3. open' \in BOOLEAN
  BY DEF Parse, KeepsConnection, IsResponse, IsMessage
<1> QED
  BY <1>1, <1>2, <1>3, FailTyped DEF Parse, TypeOK, ThreadInv, peer, Sending

\* The server's steps.
LEMMA ServerTyped ==
    TypeOK /\ ThreadInv /\ (ServerReads \/ Respond \/ RespondMalformed \/ Duplicate \/ Leave)
    => TypeOK' /\ ThreadInv'
<1> SUFFICES ASSUME TypeOK, ThreadInv PROVE
      (ServerReads \/ Respond \/ RespondMalformed \/ Duplicate \/ Leave) => TypeOK' /\ ThreadInv'
  OBVIOUS
<1>1. CASE ServerReads
  <2>1. up[1] \in Chunk
    BY <1>1, ElementOfSeq DEF ServerReads, TypeOK, CHUNKS
  <2>2. up[1].message \in Message
    BY <2>1 DEF Chunk
  <2>3. asked' \in Seq(Message)
    BY <1>1, <2>2, AppendProperties DEF ServerReads, TypeOK
  <2>4. up' \in Seq(Chunk)
    BY <1>1, Part DEF ServerReads, TypeOK, CHUNKS
  <2> QED
    BY <1>1, <2>3, <2>4 DEF ServerReads, TypeOK, ThreadInv, thread, Sending
<1>2. CASE Respond \/ RespondMalformed
  <2>1. asked # <<>>
    BY <1>2 DEF Respond, RespondMalformed
  <2>2. Head(asked) \in Message /\ Tail(asked) \in Seq(Message)
    BY <2>1, HeadTailProperties DEF TypeOK
  <2>3. PICK result \in Results : /\ last' = Response(Head(asked), result)
                                   /\ down' = down \o Chunks(Response(Head(asked), result))
    <3>1. Head(asked).type \in Types
      BY <2>2 DEF Message
    <3> QED
      BY <1>2, <3>1, ResultsTyped DEF Respond, RespondMalformed
  <2>4. last' \in Message
    BY <2>2, <2>3, Messages
  <2>5. down' \in Seq(Chunk)
    BY <2>3, <2>4, TwoPieces, ConcatProperties DEF TypeOK
  <2> QED
    BY <1>2, <2>2, <2>4, <2>5 DEF Respond, RespondMalformed, TypeOK, ThreadInv, thread, Sending
<1>3. CASE Duplicate
  <2>1. down' \in Seq(Chunk)
    BY <1>3, TwoPieces, ConcatProperties DEF Duplicate, TypeOK
  <2> QED
    BY <1>3, <2>1 DEF Duplicate, TypeOK, ThreadInv, thread, Sending
<1>4. CASE Leave
  <2>1. down' \in Seq(Chunk)
    BY <1>4, Part DEF Leave, TypeOK
  <2> QED
    BY <1>4, <2>1 DEF Leave, TypeOK, ThreadInv, thread, Sending
<1> QED
  BY <1>1, <1>2, <1>3, <1>4

\* Every step is one of those.
LEMMA Steps ==
    [Next]_vars =>
        \/ \E t \in Types : Ask(t)
        \/ FdsOpen \/ ConnectFails \/ NoMoreFds \/ Construct \/ RefuseToAsk \/ WriteFails \/ ReadFails
        \/ Connect
        \/ \E n \in 1..CHUNKS : Write(n)
        \/ \E n \in 1..CHUNKS : Read(n)
        \/ Parse
        \/ ServerReads \/ Respond \/ RespondMalformed \/ Duplicate \/ Leave
        \/ UNCHANGED vars
BY DEF Next, ThreadStep, ServerStep

\* So the types stay right.
LEMMA TypeStep == TypeOK /\ ThreadInv /\ [Next]_vars => TypeOK' /\ ThreadInv'
<1> SUFFICES ASSUME TypeOK, ThreadInv, [Next]_vars PROVE TypeOK' /\ ThreadInv'
  OBVIOUS
<1>1. CASE UNCHANGED vars
  BY <1>1 DEF vars, thread, peer, TypeOK, ThreadInv, Sending
<1> QED
  BY <1>1, Steps, PlainTyped, ConnectTyped, WriteTyped, ReadTyped, ParseTyped, ServerTyped

(***************************************************************************)
(* Requests are whole.                                                     *)
(***************************************************************************)

\* What a write adds to the stream.
LEMMA Written ==
    ASSUME TypeOK, NEW n \in 1..CHUNKS, Write(n)
    PROVE  /\ Len(up') = Len(up) + n
           /\ \A k \in 1..Len(up) : up'[k] = up[k]
           /\ \A k \in 1..n :
                up'[Len(up) + k] = IF moved + k = 1 THEN First(Request(lookup, id, type))
                                   ELSE Second(Request(lookup, id, type))
<1> DEFINE request == Request(lookup, id, type)
           part == SubSeq(Chunks(request), moved + 1, moved + n)
<1>1. request \in Message
  BY Messages DEF TypeOK
<1>2. moved \in 0..1 /\ n \in 1..2 /\ moved + n <= 2
  BY DEF Write, TypeOK, CHUNKS
<1>3. Chunks(request) \in Seq(Chunk) /\ Len(Chunks(request)) = 2
      /\ Chunks(request)[1] = First(request) /\ Chunks(request)[2] = Second(request)
  BY <1>1, TwoPieces
<1> HIDE DEF request
<1>4. /\ part \in Seq(Chunk)
      /\ Len(part) = n
      /\ \A k \in 1..n : part[k] = Chunks(request)[moved + k]
  BY <1>2, <1>3, Part
<1>5. up' = up \o part /\ up \in Seq(Chunk)
  BY DEF Write, TypeOK, request
<1> HIDE DEF part
<1>6. /\ Len(up') = Len(up) + n
      /\ \A k \in 1..Len(up) : up'[k] = up[k]
      /\ \A k \in 1..n : up'[Len(up) + k] = part[k]
  BY <1>2, <1>4, <1>5, ConcatProperties
<1>7. \A k \in 1..n : Chunks(request)[moved + k] = IF moved + k = 1 THEN First(request) ELSE Second(request)
  BY <1>2, <1>3
<1> QED
  BY <1>4, <1>6, <1>7 DEF request

\* A request is continued where it was left.
LEMMA WriteUp ==
    ASSUME TypeOK, ThreadInv, UpInv, NEW n \in 1..CHUNKS, Write(n)
    PROVE  UpInv'
<1> DEFINE request == Request(lookup, id, type)
<1>1. /\ open' = open /\ open /\ lookup' = lookup /\ id' = id /\ type' = type
      /\ phase = "send" /\ moved \in 0..1 /\ n \in 1..2 /\ moved + n <= 2
      /\ IF moved + n = 2 THEN phase' = "receive" /\ moved' = 0 ELSE phase' = phase /\ moved' = 1
      /\ Len(up) \in Nat
  BY DEF Write, TypeOK, ThreadInv, CHUNKS, Sending
<1>2. /\ Len(up') = Len(up) + n
      /\ \A k \in 1..Len(up) : up'[k] = up[k]
      /\ \A k \in 1..n : up'[Len(up) + k] = IF moved + k = 1 THEN First(request) ELSE Second(request)
  BY Written
<1>3. /\ First(request).chunk = 1 /\ Second(request).chunk = 2
      /\ First(request).message = request
  BY DEF First, Second
<1>4. IF moved = 1 THEN Len(up) > 0 /\ up[Len(up)] = First(request)
      ELSE Len(up) > 0 => up[Len(up)].chunk = 2
  BY <1>1 DEF UpInv
<1>5. request' = request
  BY <1>1 DEF Request
<1> HIDE DEF request
<1>6. Len(up') > 0 /\ up'[1].chunk = 1
  <2>1. CASE Len(up) > 0
    BY <1>1, <1>2, <2>1 DEF UpInv
  <2>2. CASE Len(up) = 0
    BY <1>1, <1>2, <1>3, <1>4, <2>2
  <2> QED
    BY <1>1, <2>1, <2>2
<1>7. ASSUME NEW k \in 1..(Len(up') - 1)
      PROVE  IF up'[k].chunk = 1 THEN up'[k + 1] = Second(up'[k].message) ELSE up'[k + 1].chunk = 1
  <2>1. CASE k < Len(up)
    BY <1>1, <1>2, <2>1 DEF UpInv
  <2>2. CASE k = Len(up)
    <3>1. 1 \in 1..n /\ up'[k] = up[k]
      BY <1>1, <1>2, <2>2
    <3>2. up'[k + 1] = IF moved = 0 THEN First(request) ELSE Second(request)
      BY <1>1, <1>2, <2>2, <3>1
    <3>3. CASE moved = 0
      <4>1. up[k].chunk = 2
        BY <1>4, <2>2, <3>3
      <4> QED
        BY <1>3, <3>1, <3>2, <3>3, <4>1
    <3>4. CASE moved = 1
      <4>1. up[k] = First(request)
        BY <1>4, <2>2, <3>4
      <4> QED
        BY <1>3, <3>1, <3>2, <3>4, <4>1
    <3> QED
      BY <1>1, <3>3, <3>4
  <2>3. CASE k > Len(up)
    <3>1. k = Len(up) + 1 /\ n = 2 /\ moved = 0
      BY <1>1, <1>2, <2>3
    <3> QED
      BY <1>1, <1>2, <1>3, <3>1
  <2> QED
    BY <1>1, <2>1, <2>2, <2>3
<1>8. IF phase' = "send" /\ moved' = 1
      THEN Len(up') > 0 /\ up'[Len(up')] = First(request)
      ELSE Len(up') > 0 => up'[Len(up')].chunk = 2
  <2>1. up'[Len(up')] = IF moved + n = 1 THEN First(request) ELSE Second(request)
    BY <1>1, <1>2
  <2> QED
    BY <1>1, <1>3, <1>6, <2>1
<1> QED
  BY <1>5, <1>6, <1>7, <1>8 DEF UpInv, request

\* The first two pieces are one message.
LEMMA FirstPieces ==
    ASSUME TypeOK, UpInv, Len(up) >= CHUNKS
    PROVE  /\ SubSeq(up, 1, CHUNKS) = Chunks(up[1].message)
           /\ up[1] = First(up[1].message) /\ up[2] = Second(up[1].message)
           /\ up[1].message \in Message
<1>1. up \in Seq(Chunk) /\ 1 \in 1..Len(up) /\ 2 <= Len(up) /\ Len(up) \in Nat
  BY DEF TypeOK, CHUNKS
<1>2. up[1] \in Chunk
  BY <1>1, ElementOfSeq
<1>3. up[1] = First(up[1].message) /\ up[1].message \in Message
  BY <1>1, <1>2 DEF Chunk, First, UpInv
<1>4. up[2] = Second(up[1].message)
  <2>1. 1 \in 1..(Len(up) - 1) /\ up[1].chunk = 1
    BY <1>1 DEF UpInv
  <2> QED
    BY <2>1 DEF UpInv
<1>5. /\ SubSeq(up, 1, 2) \in Seq(Chunk) /\ Len(SubSeq(up, 1, 2)) = 2
      /\ \A k \in 1..2 : SubSeq(up, 1, 2)[k] = up[k]
  BY <1>1, Part
<1>6. /\ Chunks(up[1].message) \in Seq(Chunk)
      /\ Len(Chunks(up[1].message)) = 2
      /\ Chunks(up[1].message)[1] = First(up[1].message)
      /\ Chunks(up[1].message)[2] = Second(up[1].message)
  BY <1>3, TwoPieces
<1>7. SubSeq(up, 1, 2) = Chunks(up[1].message)
  BY <1>3, <1>4, <1>5, <1>6, SeqEqual
<1> QED
  BY <1>3, <1>4, <1>7 DEF CHUNKS

\* The server takes the first request.
LEMMA Taken ==
    ASSUME TypeOK, UpInv, ServerReads
    PROVE  /\ Len(up) >= 2 /\ Len(up') = Len(up) - 2
           /\ \A k \in 1..(Len(up) - 2) : up'[k] = up[k + 2]
           /\ Len(asked') = Len(asked) + 1
           /\ \A k \in 1..Len(asked) : asked'[k] = asked[k]
           /\ asked'[Len(asked) + 1] = up[1].message
           /\ up[1].message \in Message
<1>1. /\ up \in Seq(Chunk) /\ Len(up) \in Nat /\ Len(up) >= 2 /\ up' = SubSeq(up, 3, Len(up))
      /\ asked \in Seq(Message) /\ asked' = Append(asked, up[1].message)
  BY DEF ServerReads, TypeOK, CHUNKS
<1>2. /\ Len(up') = Len(up) - 2
      /\ \A k \in 1..(Len(up) - 2) : up'[k] = up[k + 2]
  <2>1. 2 \in Nat /\ 2 <= Len(up) /\ 2 + 1 = 3
    BY <1>1
  <2>2. /\ Len(SubSeq(up, 2 + 1, Len(up))) = Len(up) - 2
        /\ \A k \in 1..(Len(up) - 2) : SubSeq(up, 2 + 1, Len(up))[k] = up[k + 2]
    BY <1>1, <2>1, Rest
  <2>3. SubSeq(up, 2 + 1, Len(up)) = up'
    BY <1>1, <2>1, Zenon
  <2> QED
    BY <2>2, <2>3, Zenon
<1>3. up[1].message \in Message
  BY <1>1, FirstPieces DEF CHUNKS
<1>4. /\ Len(asked') = Len(asked) + 1
      /\ \A k \in 1..Len(asked) : asked'[k] = asked[k]
      /\ asked'[Len(asked) + 1] = up[1].message
  BY <1>1, <1>3, AppendProperties
<1> QED
  BY <1>1, <1>2, <1>3, <1>4

\* The server takes a request, and leaves requests.
LEMMA ServerReadsUp ==
    ASSUME TypeOK, ThreadInv, UpInv, ServerReads
    PROVE  UpInv'
<1>1. /\ Len(up) \in Nat /\ Len(up) >= 2
      /\ open' = open /\ phase' = phase /\ moved' = moved
      /\ Request(lookup, id, type)' = Request(lookup, id, type)
  BY DEF ServerReads, TypeOK, CHUNKS, thread, Request
<1>2. /\ Len(up') = Len(up) - 2
      /\ \A k \in 1..(Len(up) - 2) : up'[k] = up[k + 2]
  BY Taken
<1>3. up[1].chunk = 1 /\ up[2].chunk = 2
  BY <1>1, FirstPieces DEF UpInv, Second, CHUNKS
<1>4. Len(up') > 0 => up'[1].chunk = 1
  <2>1. Len(up) > 2 => 2 \in 1..(Len(up) - 1) /\ up[3].chunk = 1
    BY <1>1, <1>3 DEF UpInv
  <2> QED
    BY <1>1, <1>2, <2>1
<1>5. ASSUME NEW k \in 1..(Len(up') - 1)
      PROVE  IF up'[k].chunk = 1 THEN up'[k + 1] = Second(up'[k].message) ELSE up'[k + 1].chunk = 1
  <2>1. k + 2 \in 1..(Len(up) - 1) /\ up'[k] = up[k + 2] /\ up'[k + 1] = up[(k + 2) + 1]
    BY <1>1, <1>2
  <2> QED
    BY <2>1 DEF UpInv
<1>6. Len(up) > 2 => up'[Len(up')] = up[Len(up)]
  BY <1>1, <1>2
<1>7. First(Request(lookup, id, type)).chunk = 1
  BY DEF First
<1>8. open /\ phase = "send" /\ moved = 1 => Len(up) > 2
  BY <1>1, <1>3, <1>7 DEF UpInv
<1>9. open' => IF phase' = "send" /\ moved' = 1
               THEN Len(up') > 0 /\ up'[Len(up')] = First(Request(lookup, id, type))'
               ELSE Len(up') > 0 => up'[Len(up')].chunk = 2
  <2> SUFFICES ASSUME open
               PROVE  IF phase = "send" /\ moved = 1
                      THEN Len(up') > 0 /\ up'[Len(up')] = First(Request(lookup, id, type))
                      ELSE Len(up') > 0 => up'[Len(up')].chunk = 2
    BY <1>1 DEF First
  <2>1. CASE phase = "send" /\ moved = 1
    BY <1>1, <1>2, <1>6, <1>8, <2>1 DEF UpInv
  <2>2. CASE ~(phase = "send" /\ moved = 1)
    <3>1. Len(up) > 2 => up[Len(up)].chunk = 2
      BY <1>1, <2>2 DEF UpInv
    <3> QED
      BY <1>1, <1>2, <1>6, <2>2, <3>1
  <2> QED
    BY <2>1, <2>2
<1> QED
  BY <1>4, <1>5, <1>9 DEF UpInv

\* Every other step of the thread leaves the requests alone and has none half
\* sent, or gives up the connection.
LEMMA UpStep == TypeOK /\ ThreadInv /\ UpInv /\ [Next]_vars => UpInv'
<1> SUFFICES ASSUME TypeOK, ThreadInv, UpInv, [Next]_vars PROVE UpInv'
  OBVIOUS
<1>1. ASSUME NEW t \in Types, Ask(t) PROVE UpInv'
  BY <1>1 DEF Ask, UpInv, peer
<1>2. CASE FdsOpen \/ NoMoreFds
  BY <1>2 DEF FdsOpen, NoMoreFds, UpInv, peer
<1>3. CASE Connect
  <2>1. Len(up') = 0 /\ moved' = 0
    BY <1>3, EmptySeq DEF Connect, ThreadInv
  <2> QED
    BY <2>1 DEF UpInv
<1>4. CASE ConnectFails \/ RefuseToAsk
  BY <1>4 DEF ConnectFails, RefuseToAsk, Fail, UpInv, peer
<1>5. CASE Construct
  <2>1. moved' = 0 /\ moved = 0
    BY <1>5 DEF Construct, ThreadInv
  <2> QED
    BY <1>5, <2>1 DEF Construct, UpInv, peer
<1>6. CASE WriteFails \/ ReadFails
  BY <1>6 DEF WriteFails, ReadFails, Fail, UpInv, peer
<1>7. CASE Parse
  <2>1. open /\ phase = "parse" /\ phase' = "idle" /\ up' = up
    BY <1>7 DEF Parse, ThreadInv, Sending, Fail, peer
  <2> QED
    BY <2>1 DEF UpInv
<1>8. ASSUME NEW n \in 1..CHUNKS, Read(n) PROVE UpInv'
  BY <1>8 DEF Read, UpInv
<1>9. CASE Respond \/ RespondMalformed \/ Duplicate \/ Leave \/ UNCHANGED vars
  <2>1. up' = up /\ UNCHANGED thread
    BY <1>9 DEF Respond, RespondMalformed, Duplicate, Leave, vars, peer
  <2> QED
    BY <2>1 DEF UpInv, thread, Request
<1> QED
  BY <1>1, <1>2, <1>3, <1>4, <1>5, <1>6, <1>7, <1>8, <1>9, Steps, WriteUp, ServerReadsUp

(***************************************************************************)
(* Where nothing is repeated, nothing is left over.                        *)
(***************************************************************************)

\* What a read moves.
LEMMA Received ==
    ASSUME TypeOK, NEW n \in 1..CHUNKS, Read(n)
    PROVE  /\ Len(inbox') = Len(inbox) + n
           /\ \A k \in 1..Len(inbox) : inbox'[k] = inbox[k]
           /\ \A k \in 1..n : inbox'[Len(inbox) + k] = down[k]
           /\ n <= Len(down)
           /\ Len(down') = Len(down) - n
           /\ \A k \in 1..(Len(down) - n) : down'[k] = down[k + n]
<1> DEFINE part == SubSeq(down, 1, n)
<1>1. /\ inbox' = inbox \o part /\ inbox \in Seq(Chunk)
      /\ down' = SubSeq(down, n + 1, Len(down)) /\ down \in Seq(Chunk)
      /\ n \in Nat /\ n <= Len(down)
  BY DEF Read, TypeOK, CHUNKS
<1>2. part \in Seq(Chunk) /\ Len(part) = n /\ \A k \in 1..n : part[k] = down[k]
  <2>1. 1 \in Nat \ {0} /\ 1 <= n /\ n - 1 + 1 = n /\ \A k \in 1..n : 1 + k - 1 = k
    BY <1>1
  <2>2. /\ part \in Seq(Chunk)
        /\ Len(part) = IF 1 <= n THEN n - 1 + 1 ELSE 0
        /\ \A k \in 1..(n - 1 + 1) : part[k] = down[1 + k - 1]
    BY <1>1, <2>1, Part
  <2> QED
    BY <2>1, <2>2, Zenon
<1> HIDE DEF part
<1>3. /\ Len(inbox') = Len(inbox) + n
      /\ \A k \in 1..Len(inbox) : inbox'[k] = inbox[k]
      /\ \A k \in 1..n : inbox'[Len(inbox) + k] = part[k]
  BY <1>1, <1>2, ConcatProperties
<1>4. /\ Len(down') = Len(down) - n
      /\ \A k \in 1..(Len(down) - n) : down'[k] = down[k + n]
  BY <1>1, Rest
<1> QED
  BY <1>1, <1>2, <1>3, <1>4

\* A response takes the place of its request.
LEMMA Answered ==
    ASSUME TypeOK, Respond \/ RespondMalformed
    PROVE  \E r \in Results :
             LET answer == Response(asked[1], r) IN
               /\ Respond => r \in ProperResults(asked[1].type)
               /\ asked[1] \in Message /\ answer \in Message
               /\ last' = answer
               /\ Len(asked) >= 1 /\ Len(asked') = Len(asked) - 1
               /\ \A k \in 1..(Len(asked) - 1) : asked'[k] = asked[k + 1]
               /\ Len(down') = Len(down) + 2
               /\ \A k \in 1..Len(down) : down'[k] = down[k]
               /\ down'[Len(down) + 1] = First(answer)
               /\ down'[Len(down) + 2] = Second(answer)
<1>1. asked \in Seq(Message) /\ asked # <<>> /\ asked' = Tail(asked)
  BY DEF Respond, RespondMalformed, TypeOK
<1>2. /\ Head(asked) = asked[1] /\ asked[1] \in Message
      /\ Len(asked) >= 1 /\ Len(asked') = Len(asked) - 1
      /\ \A k \in 1..(Len(asked) - 1) : asked'[k] = asked[k + 1]
  BY <1>1, HeadTailProperties, EmptySeq, ElementOfSeq
<1>3. asked[1].type \in Types
  BY <1>2 DEF Message
<1>4. PICK r \in Results :
        /\ Respond => r \in ProperResults(asked[1].type)
        /\ last' = Response(asked[1], r)
        /\ down' = down \o Chunks(Response(asked[1], r))
  <2>1. CASE Respond
    BY <1>2, <1>3, <2>1, ResultsTyped DEF Respond
  <2>2. CASE RespondMalformed /\ ~Respond
    BY <1>2, <1>3, <2>2, ResultsTyped DEF RespondMalformed
  <2> QED
    BY <2>1, <2>2
<1> DEFINE answer == Response(asked[1], r)
<1>5. answer \in Message
  BY <1>2, Messages
<1>6. down \in Seq(Chunk) /\ down' = down \o Chunks(answer) /\ last' = answer
  BY <1>4 DEF TypeOK
<1>7. /\ Chunks(answer) \in Seq(Chunk)
      /\ Len(Chunks(answer)) = 2
      /\ Chunks(answer)[1] = First(answer)
      /\ Chunks(answer)[2] = Second(answer)
  BY <1>5, TwoPieces
<1> HIDE DEF answer
<1>8. /\ Len(down') = Len(down) + 2
      /\ \A k \in 1..Len(down) : down'[k] = down[k]
      /\ down'[Len(down) + 1] = First(answer)
      /\ down'[Len(down) + 2] = Second(answer)
  BY <1>6, <1>7, ConcatProperties
<1> QED
  BY <1>2, <1>4, <1>5, <1>6, <1>8 DEF answer

\* Lengths are numbers.
LEMMA Lengths ==
    ASSUME TypeOK
    PROVE  Len(up) \in Nat /\ Len(asked) \in Nat /\ Len(down) \in Nat /\ Len(inbox) \in Nat
BY LenProperties DEF TypeOK

\* Leaving cuts the stream.
LEMMA Cut ==
    ASSUME TypeOK, Leave
    PROVE  /\ down' \in Seq(Chunk)
           /\ Len(down') \in Nat /\ Len(down') <= Len(down)
           /\ \A k \in 1..Len(down') : down'[k] = down[k]
<1>1. PICK n \in 0..Len(down) : down' = SubSeq(down, 1, n)
  BY DEF Leave
<1>2. down' \in Seq(Chunk) /\ Len(down') = n /\ \A k \in 1..n : down'[k] = down[k]
  <2>1. 1 \in Nat \ {0} /\ n \in Nat /\ n <= Len(down) /\ n - 1 + 1 = n /\ \A k \in 1..n : 1 + k - 1 = k
    BY Lengths
  <2>2. down \in Seq(Chunk)
    BY DEF TypeOK
  <2>3. /\ down' \in Seq(Chunk)
        /\ Len(down') = IF 1 <= n THEN n - 1 + 1 ELSE 0
        /\ \A k \in 1..(n - 1 + 1) : down'[k] = down[1 + k - 1]
    BY <1>1, <2>1, <2>2, Part
  <2>4. (IF 1 <= n THEN n - 1 + 1 ELSE 0) = n
    BY <2>1
  <2>5. \A k \in 1..n : down'[k] = down[k]
    BY <2>1, <2>3, Zenon
  <2> QED
    BY <2>3, <2>4, <2>5
<1> QED
  BY <1>1, <1>2, Lengths

\* A request follows nothing.
LEMMA WriteStream ==
    ASSUME TypeOK, ThreadInv, StreamInv, NEW n \in 1..CHUNKS, Write(n)
    PROVE  StreamInv'
<1> SUFFICES ASSUME NoRepeat', open' PROVE StreamInv'
  BY DEF StreamInv, AllCurrent
<1> DEFINE request == Request(lookup, id, type)
<1>1. /\ NoRepeat /\ open /\ phase = "send"
      /\ moved \in 0..1 /\ n \in 1..2 /\ moved + n <= 2
      /\ IF moved + n = 2 THEN phase' = "receive" /\ moved' = 0 ELSE phase' = phase /\ moved' = moved + n
      /\ UNCHANGED <<asked, down, inbox, lookup, id, type>>
  BY DEF Write, TypeOK, CHUNKS, NoRepeat
<1>2. /\ asked = <<>> /\ down = <<>> /\ Len(up) = moved /\ Len(inbox) = 0
      /\ Len(asked) = 0 /\ Len(down) = 0
  BY <1>1, EmptySeq DEF StreamInv, ThreadInv
<1>3. /\ Len(up') = Len(up) + n
      /\ \A k \in 1..Len(up) : up'[k] = up[k]
      /\ \A k \in 1..n : up'[Len(up) + k] = IF moved + k = 1 THEN First(request) ELSE Second(request)
  BY Written
<1>4. IsCurrent(request) /\ First(request).message = request /\ Second(request).message = request
  BY <1>1 DEF IsCurrent, Request, First, Second
<1>5. \A k \in 1..Len(up) : IsCurrent(up[k].message)
  BY <1>1 DEF StreamInv, AllCurrent
<1> HIDE DEF request
<1>6. ASSUME NEW k \in 1..Len(up') PROVE IsCurrent(up'[k].message)
  <2>1. CASE k <= Len(up)
    BY <1>1, <1>2, <1>3, <1>5, <2>1
  <2>2. CASE k > Len(up)
    <3>1. k - Len(up) \in 1..n /\ Len(up) + (k - Len(up)) = k
      BY <1>1, <1>2, <1>3, <2>2
    <3>2. up'[k] = First(request) \/ up'[k] = Second(request)
      BY <1>3, <3>1
    <3> QED
      BY <1>4, <3>2
  <2> QED
    BY <1>1, <1>2, <2>1, <2>2
<1>7. /\ phase' \in {"send", "receive"}
      /\ phase' = "send" => Len(up') = moved'
      /\ Len(up') <= 2
  BY <1>1, <1>2, <1>3
<1>8. /\ \A k \in 1..Len(up') : IsCurrent(up'[k].message)
      /\ Len(asked') = 0 /\ Len(down') = 0 /\ Len(inbox') = 0
      /\ asked' = <<>> /\ down' = <<>>
  BY <1>1, <1>2, <1>4, <1>6
<1>9. AllCurrent'
  BY <1>1, <1>7, <1>8 DEF AllCurrent, IsCurrent
<1> QED
  BY <1>1, <1>7, <1>8, <1>9 DEF StreamInv, Sending, CHUNKS

\* A read moves pieces from the stream to the thread.
LEMMA ReadStream ==
    ASSUME TypeOK, ThreadInv, StreamInv, NEW n \in 1..CHUNKS, Read(n)
    PROVE  StreamInv'
<1> SUFFICES ASSUME NoRepeat', open' PROVE StreamInv'
  BY DEF StreamInv, AllCurrent
<1>1. /\ NoRepeat /\ open /\ phase = "receive"
      /\ n \in 1..2
      /\ phase' \in {"receive", "parse"}
      /\ UNCHANGED <<asked, up, lookup, id, type>>
  BY DEF Read, TypeOK, CHUNKS, NoRepeat
<1>2. /\ Len(up) + 2 * Len(asked) + Len(down) + Len(inbox) <= 2
      /\ \A k \in 1..Len(up) : IsCurrent(up[k].message)
      /\ \A k \in 1..Len(asked) : IsCurrent(asked[k])
      /\ \A k \in 1..Len(down) : IsCurrent(down[k].message)
      /\ \A k \in 1..Len(inbox) : IsCurrent(inbox[k].message)
  BY <1>1 DEF StreamInv, AllCurrent, CHUNKS
<1>3. /\ Len(inbox') = Len(inbox) + n
      /\ \A k \in 1..Len(inbox) : inbox'[k] = inbox[k]
      /\ \A k \in 1..n : inbox'[Len(inbox) + k] = down[k]
      /\ n <= Len(down)
      /\ Len(down') = Len(down) - n
      /\ \A k \in 1..(Len(down) - n) : down'[k] = down[k + n]
  BY Received
<1>4. ASSUME NEW k \in 1..Len(inbox') PROVE IsCurrent(inbox'[k].message)
  <2>1. CASE k <= Len(inbox)
    BY <1>2, <1>3, <2>1, Lengths
  <2>2. CASE k > Len(inbox)
    <3>1. k - Len(inbox) \in 1..n /\ k - Len(inbox) \in 1..Len(down) /\ Len(inbox) + (k - Len(inbox)) = k
      BY <1>1, <1>3, <2>2, Lengths
    <3>2. inbox'[k] = down[k - Len(inbox)]
      BY <1>3, <3>1
    <3> QED
      BY <1>2, <3>1, <3>2
  <2> QED
    BY <2>1, <2>2, Lengths
<1>5. ASSUME NEW k \in 1..Len(down') PROVE IsCurrent(down'[k].message)
  <2>1. k \in 1..(Len(down) - n) /\ k + n \in 1..Len(down)
    BY <1>1, <1>3, Lengths
  <2> QED
    BY <1>2, <1>3, <2>1
<1>6. Len(up') + 2 * Len(asked') + Len(down') + Len(inbox') <= 2
  <2>1. Len(up') = Len(up) /\ Len(asked') = Len(asked)
    BY <1>1
  <2> QED
    BY <1>1, <1>2, <1>3, <2>1, Lengths
<1>7. /\ \A k \in 1..Len(up') : IsCurrent(up'[k].message)
      /\ \A k \in 1..Len(asked') : IsCurrent(asked'[k])
      /\ \A k \in 1..Len(down') : IsCurrent(down'[k].message)
      /\ \A k \in 1..Len(inbox') : IsCurrent(inbox'[k].message)
  BY <1>1, <1>2, <1>4, <1>5
<1>8. AllCurrent'
  BY <1>1, <1>6, <1>7 DEF AllCurrent, IsCurrent
<1> QED
  BY <1>1, <1>6, <1>7, <1>8 DEF StreamInv, Sending, CHUNKS

\* The server takes the only request.
LEMMA TakenStream ==
    ASSUME TypeOK, ThreadInv, UpInv, StreamInv, ServerReads
    PROVE  StreamInv'
<1> SUFFICES ASSUME NoRepeat', open' PROVE StreamInv'
  BY DEF StreamInv, AllCurrent
<1>1. /\ NoRepeat /\ open
      /\ UNCHANGED <<phase, moved, inbox, down, lookup, id, type>>
  BY DEF ServerReads, NoRepeat, thread
<1>2. /\ Len(up) >= 2 /\ Len(up') = Len(up) - 2
      /\ \A k \in 1..(Len(up) - 2) : up'[k] = up[k + 2]
      /\ Len(asked') = Len(asked) + 1
      /\ \A k \in 1..Len(asked) : asked'[k] = asked[k]
      /\ asked'[Len(asked) + 1] = up[1].message
  BY Taken
<1>3. phase \in {"receive", "parse"}
  <2>1. phase # "send"
    BY <1>1, <1>2 DEF StreamInv, TypeOK, CHUNKS
  <2>2. phase \in Sending
    BY <1>1, <1>2, EmptySeq DEF StreamInv, AllCurrent
  <2> QED
    BY <2>1, <2>2 DEF Sending
<1>4. /\ Len(up) + 2 * Len(asked) + Len(down) + Len(inbox) <= 2
      /\ \A k \in 1..Len(up) : IsCurrent(up[k].message)
      /\ \A k \in 1..Len(asked) : IsCurrent(asked[k])
      /\ \A k \in 1..Len(down) : IsCurrent(down[k].message)
      /\ \A k \in 1..Len(inbox) : IsCurrent(inbox[k].message)
  BY <1>1, <1>3 DEF StreamInv, AllCurrent, CHUNKS
<1>5. ASSUME NEW k \in 1..Len(up') PROVE IsCurrent(up'[k].message)
  <2>1. k \in 1..(Len(up) - 2) /\ k + 2 \in 1..Len(up)
    BY <1>2, Lengths
  <2> QED
    BY <1>2, <1>4, <2>1
<1>6. ASSUME NEW k \in 1..Len(asked') PROVE IsCurrent(asked'[k])
  <2>1. CASE k <= Len(asked)
    BY <1>2, <1>4, <2>1, Lengths
  <2>2. CASE k > Len(asked)
    <3>1. k = Len(asked) + 1 /\ 1 \in 1..Len(up)
      BY <1>2, <2>2, Lengths
    <3> QED
      BY <1>2, <1>4, <3>1
  <2> QED
    BY <2>1, <2>2, Lengths
<1>7. Len(up') + 2 * Len(asked') + Len(down') + Len(inbox') <= 2
  <2>1. Len(inbox') = Len(inbox) /\ Len(down') = Len(down)
    BY <1>1
  <2> QED
    BY <1>2, <1>4, <2>1, Lengths
<1>8. /\ \A k \in 1..Len(up') : IsCurrent(up'[k].message)
      /\ \A k \in 1..Len(asked') : IsCurrent(asked'[k])
      /\ \A k \in 1..Len(down') : IsCurrent(down'[k].message)
      /\ \A k \in 1..Len(inbox') : IsCurrent(inbox'[k].message)
  BY <1>1, <1>4, <1>5, <1>6
<1>9. AllCurrent'
  BY <1>1, <1>3, <1>7, <1>8 DEF AllCurrent, IsCurrent
<1> QED
  BY <1>1, <1>3, <1>7, <1>8, <1>9 DEF StreamInv, Sending, CHUNKS

\* The response to it is alone, too.
LEMMA AnsweredStream ==
    ASSUME TypeOK, ThreadInv, StreamInv, Respond \/ RespondMalformed
    PROVE  StreamInv'
<1> SUFFICES ASSUME NoRepeat', open' PROVE StreamInv'
  BY DEF StreamInv, AllCurrent
<1>1. /\ NoRepeat /\ open
      /\ UNCHANGED <<phase, moved, inbox, up, lookup, id, type>>
  <2>1. CASE Respond
    BY <2>1 DEF Respond, NoRepeat, thread
  <2>2. CASE RespondMalformed
    BY <2>2 DEF RespondMalformed, NoRepeat, thread
  <2> QED
    BY <2>1, <2>2
<1>2. PICK r \in Results :
         LET answer == Response(asked[1], r) IN
           /\ asked[1] \in Message
           /\ Len(asked) >= 1 /\ Len(asked') = Len(asked) - 1
           /\ \A k \in 1..(Len(asked) - 1) : asked'[k] = asked[k + 1]
           /\ Len(down') = Len(down) + 2
           /\ \A k \in 1..Len(down) : down'[k] = down[k]
           /\ down'[Len(down) + 1] = First(answer)
           /\ down'[Len(down) + 2] = Second(answer)
  BY Answered
<1> DEFINE answer == Response(asked[1], r)
<1>3. phase \in {"receive", "parse"}
  <2>1. asked # <<>>
    BY DEF Respond, RespondMalformed
  <2> QED
    BY <1>1, <2>1 DEF StreamInv, Sending
<1>4. /\ Len(up) + 2 * Len(asked) + Len(down) + Len(inbox) <= 2
      /\ \A k \in 1..Len(up) : IsCurrent(up[k].message)
      /\ \A k \in 1..Len(asked) : IsCurrent(asked[k])
      /\ \A k \in 1..Len(down) : IsCurrent(down[k].message)
      /\ \A k \in 1..Len(inbox) : IsCurrent(inbox[k].message)
  BY <1>1, <1>3 DEF StreamInv, AllCurrent, CHUNKS
<1>5. IsCurrent(answer) /\ First(answer).message = answer /\ Second(answer).message = answer
  <2>1. 1 \in 1..Len(asked)
    BY <1>2, Lengths
  <2>2. IsCurrent(asked[1])
    BY <1>4, <2>1
  <2>3. answer.for = asked[1].for /\ answer.id = asked[1].id /\ answer.type = asked[1].type
    BY <1>2, Messages
  <2> QED
    BY <2>2, <2>3 DEF IsCurrent, First, Second
<1> HIDE DEF answer
<1>6. ASSUME NEW k \in 1..Len(down') PROVE IsCurrent(down'[k].message)
  <2>1. CASE k <= Len(down)
    BY <1>2, <1>4, <2>1, Lengths
  <2>2. CASE k > Len(down)
    <3>1. k = Len(down) + 1 \/ k = Len(down) + 2
      BY <1>2, <2>2, Lengths
    <3>2. down'[k] = First(answer) \/ down'[k] = Second(answer)
      BY <1>2, <3>1 DEF answer
    <3> QED
      BY <1>5, <3>2
  <2> QED
    BY <2>1, <2>2, Lengths
<1>7. ASSUME NEW k \in 1..Len(asked') PROVE IsCurrent(asked'[k])
  <2>1. k \in 1..(Len(asked) - 1) /\ k + 1 \in 1..Len(asked)
    BY <1>2, Lengths
  <2> QED
    BY <1>2, <1>4, <2>1
<1>8. Len(up') + 2 * Len(asked') + Len(down') + Len(inbox') <= 2
  <2>1. Len(up') = Len(up) /\ Len(inbox') = Len(inbox)
    BY <1>1
  <2> QED
    BY <1>2, <1>4, <2>1, Lengths
<1>9. /\ \A k \in 1..Len(up') : IsCurrent(up'[k].message)
      /\ \A k \in 1..Len(asked') : IsCurrent(asked'[k])
      /\ \A k \in 1..Len(down') : IsCurrent(down'[k].message)
      /\ \A k \in 1..Len(inbox') : IsCurrent(inbox'[k].message)
  BY <1>1, <1>4, <1>6, <1>7
<1>10. AllCurrent'
  <2>1. UNCHANGED <<lookup, id, type>>
    BY <1>1
  <2> QED
    BY <1>9, <2>1 DEF AllCurrent, IsCurrent

<1> QED
  BY <1>1, <1>3, <1>8, <1>9, <1>10 DEF StreamInv, Sending, CHUNKS

\* The server may cut it.
LEMMA LeaveStream ==
    ASSUME TypeOK, StreamInv, Leave
    PROVE  StreamInv'
<1> SUFFICES ASSUME NoRepeat', open' PROVE StreamInv'
  BY DEF StreamInv, AllCurrent
<1>1. /\ NoRepeat /\ open
      /\ UNCHANGED <<phase, moved, inbox, up, asked, lookup, id, type>>
  BY DEF Leave, NoRepeat, thread
<1>2. down' \in Seq(Chunk)
  BY Cut
<1>3. Len(down') \in Nat /\ Len(down') <= Len(down) /\ \A k \in 1..Len(down') : down'[k] = down[k]
  BY Cut
<1>4. (\A k \in 1..Len(down) : IsCurrent(down[k].message))
      => \A k \in 1..Len(down') : IsCurrent(down'[k].message)
  BY <1>3, Lengths
<1>5. down = <<>> => down' = <<>>
  <2>1. down = <<>> => Len(down') = 0
    BY <1>3, EmptySeq, Lengths
  <2> QED
    BY <1>2, <2>1, EmptySeq
<1>6. Len(down') \in Nat /\ Len(down') <= Len(down)
  BY <1>3, Lengths
<1>7. /\ Len(up') = Len(up) /\ Len(asked') = Len(asked) /\ Len(inbox') = Len(inbox)
  BY <1>1
<1>8. phase' \in {"receive", "parse"} => Len(up') + 2 * Len(asked') + Len(down') + Len(inbox') <= 2
  BY <1>1, <1>6, <1>7, Lengths DEF StreamInv, AllCurrent, CHUNKS
<1>9. /\ \A k \in 1..Len(up') : IsCurrent(up'[k].message)
      /\ \A k \in 1..Len(asked') : IsCurrent(asked'[k])
      /\ \A k \in 1..Len(down') : IsCurrent(down'[k].message)
      /\ \A k \in 1..Len(inbox') : IsCurrent(inbox'[k].message)
  BY <1>1, <1>4 DEF StreamInv, AllCurrent
<1>10. /\ phase' \notin Sending => up' = <<>> /\ asked' = <<>> /\ down' = <<>>
       /\ phase' = "send" => asked' = <<>> /\ down' = <<>> /\ Len(up') = moved'
  BY <1>1, <1>5 DEF StreamInv, AllCurrent
<1>11. AllCurrent'
  BY <1>1, <1>8, <1>9, <1>10 DEF AllCurrent, IsCurrent
<1> QED
  BY <1>1, <1>8, <1>9, <1>10, <1>11 DEF StreamInv, Sending, CHUNKS

\* A connection that stays open after a response has carried nothing else.
LEMMA ParseStream ==
    ASSUME TypeOK, ThreadInv, StreamInv, Parse
    PROVE  StreamInv'
<1> SUFFICES ASSUME NoRepeat', open' PROVE StreamInv'
  BY DEF StreamInv
<1>1. /\ NoRepeat /\ open /\ phase = "parse" /\ phase' = "idle"
      /\ UNCHANGED <<up, asked, down>>
  BY DEF Parse, NoRepeat, ThreadInv, Sending, Fail, peer
<1>2. Len(inbox) = 2
  BY <1>1 DEF ThreadInv, CHUNKS
<1>3. Len(up) = 0 /\ Len(asked) = 0 /\ Len(down) = 0
  <2>1. Len(up) + 2 * Len(asked) + Len(down) + Len(inbox) <= 2
    BY <1>1 DEF StreamInv, CHUNKS
  <2> QED
    BY <1>2, <2>1, Lengths
<1>4. up' = <<>> /\ asked' = <<>> /\ down' = <<>>
  BY <1>1, <1>3, EmptySeq DEF TypeOK
<1>5. Len(inbox') = 0 /\ Len(up') = 0 /\ Len(asked') = 0 /\ Len(down') = 0
  BY <1>1, <1>4, EmptySeq DEF Parse, Fail
<1> QED
  BY <1>1, <1>4, <1>5 DEF StreamInv, AllCurrent, Sending

\* The steps that move no message start and end with empty streams.
LEMMA StreamStep ==
    TypeOK /\ ThreadInv /\ UpInv /\ StreamInv /\ [Next]_vars => StreamInv'
<1> SUFFICES ASSUME TypeOK, ThreadInv, UpInv, StreamInv, [Next]_vars, NoRepeat', open' PROVE StreamInv'
  BY DEF StreamInv
<1>1. CASE (\E t \in Types : Ask(t)) \/ FdsOpen \/ Construct \/ RefuseToAsk
  <2>1. /\ phase \notin Sending
        /\ UNCHANGED <<up, asked, down, open, faulty>>
        /\ moved = 0 /\ moved' = 0
    BY <1>1 DEF Ask, FdsOpen, Construct, RefuseToAsk, Fail, ThreadInv, peer, Sending
  <2>2. up' = <<>> /\ asked' = <<>> /\ down' = <<>>
    BY <2>1 DEF StreamInv, NoRepeat
  <2>3. Len(inbox') = 0
    BY <1>1, EmptySeq DEF Ask, FdsOpen, Construct, RefuseToAsk, Fail, ThreadInv
  <2>4. Len(up') = 0 /\ Len(asked') = 0 /\ Len(down') = 0
    BY <2>2, EmptySeq
  <2>5. phase' \notin {"receive", "parse"}
    BY <1>1 DEF Ask, FdsOpen, Construct, RefuseToAsk, Fail
  <2> QED
    BY <2>1, <2>2, <2>3, <2>4, <2>5 DEF StreamInv, AllCurrent
<1>2. CASE Connect
  <2>1. up' = <<>> /\ asked' = <<>> /\ down' = <<>> /\ phase' = "construct"
    BY <1>2 DEF Connect
  <2>2. Len(inbox') = 0 /\ Len(up') = 0 /\ Len(asked') = 0 /\ Len(down') = 0
    BY <1>2, <2>1, EmptySeq DEF Connect, ThreadInv
  <2> QED
    BY <2>1, <2>2 DEF StreamInv, AllCurrent, Sending
<1>3. CASE ConnectFails \/ NoMoreFds \/ WriteFails \/ ReadFails
  BY <1>3 DEF ConnectFails, NoMoreFds, WriteFails, ReadFails
<1>4. CASE Duplicate
  BY <1>4 DEF Duplicate, NoRepeat
<1>5. CASE UNCHANGED vars
  <2>1. UNCHANGED <<phase, moved, inbox, up, asked, down, lookup, id, type, open, faulty>>
    BY <1>5 DEF vars, thread, peer
  <2>2. AllCurrent => AllCurrent'
    BY <2>1 DEF AllCurrent, IsCurrent
  <2> QED
    BY <2>1, <2>2 DEF StreamInv, NoRepeat
<1> QED
  BY <1>1, <1>2, <1>3, <1>4, <1>5, Steps, WriteStream, ReadStream, TakenStream, AnsweredStream,
     LeaveStream, ParseStream

(***************************************************************************)
(* A proper server does not end the process.                               *)
(***************************************************************************)

\* A read moves pieces, but not the message.
LEMMA ReadPieces ==
    ASSUME TypeOK, ThreadInv, ProperPieces, NEW n \in 1..CHUNKS, Read(n)
    PROVE  ProperPieces'
<1>1. /\ Len(inbox') = Len(inbox) + n
      /\ \A k \in 1..Len(inbox) : inbox'[k] = inbox[k]
      /\ \A k \in 1..n : inbox'[Len(inbox) + k] = down[k]
      /\ n <= Len(down)
      /\ Len(down') = Len(down) - n
      /\ \A k \in 1..(Len(down) - n) : down'[k] = down[k + n]
  BY Received
<1>2. Pieces' = Pieces /\ Pieces \in Nat /\ n \in Nat
  BY <1>1, Lengths DEF Pieces, CHUNKS
<1>3. ASSUME NEW k \in 1..Pieces PROVE Piece(k)' = Piece(k)
  <2>1. CASE k <= Len(inbox)
    BY <1>1, <1>2, <2>1, Lengths DEF Piece
  <2>2. CASE k > Len(inbox) /\ k <= Len(inbox) + n
    <3>1. k - Len(inbox) \in 1..n /\ Len(inbox) + (k - Len(inbox)) = k
      BY <1>1, <1>2, <2>2, Lengths
    <3>2. inbox'[k] = down[k - Len(inbox)]
      BY <1>1, <3>1
    <3> QED
      BY <1>1, <1>2, <2>2, <3>2, Lengths DEF Piece
  <2>3. CASE k > Len(inbox) + n
    <3>1. /\ k - Len(inbox') \in 1..(Len(down) - n)
          /\ (k - Len(inbox')) + n = k - Len(inbox)
      BY <1>1, <1>2, <2>3, Lengths DEF Pieces
    <3>2. down'[k - Len(inbox')] = down[k - Len(inbox)]
      BY <1>1, <3>1
    <3> QED
      BY <1>1, <1>2, <2>3, <3>2, Lengths DEF Piece
  <2> QED
    BY <1>1, <1>2, <2>1, <2>2, <2>3, Lengths
<1>4. type' = type
  BY DEF Read
<1>5. \A k \in 1..Pieces : 1 \in 1..Pieces
  BY <1>2
<1> QED
  BY <1>2, <1>3, <1>4, <1>5 DEF ProperPieces, ProperResults

\* The response of a proper server is the only one.
LEMMA RespondPieces ==
    ASSUME TypeOK, ThreadInv, StreamInv, NoRepeat, open, phase \in {"receive", "parse"}, Respond
    PROVE  ProperPieces'
<1>1. PICK r \in Results :
        LET answer == Response(asked[1], r) IN
          /\ r \in ProperResults(asked[1].type)
          /\ asked[1] \in Message /\ Len(asked) >= 1
          /\ Len(down') = Len(down) + 2
          /\ down'[Len(down) + 1] = First(answer)
          /\ down'[Len(down) + 2] = Second(answer)
  BY Answered
<1> DEFINE answer == Response(asked[1], r)
<1>2. /\ Len(up) + 2 * Len(asked) + Len(down) + Len(inbox) <= 2
      /\ \A k \in 1..Len(asked) : IsCurrent(asked[k])
  BY DEF StreamInv, AllCurrent, CHUNKS
<1>3. asked[1].type = type
  <2>1. 1 \in 1..Len(asked)
    BY <1>1, Lengths
  <2> QED
    BY <1>2, <2>1 DEF IsCurrent
<1>4. Len(down) = 0 /\ Len(inbox) = 0
  BY <1>1, <1>2, Lengths
<1>5. inbox' = inbox /\ type' = type
  BY DEF Respond, thread
<1>6. Pieces' = 2
  BY <1>1, <1>4, <1>5 DEF Pieces
<1>7. answer.result \in ProperResults(type')
  BY <1>1, <1>3, <1>5, Messages
<1> HIDE DEF answer
<1>8. down'[1] = First(answer) /\ down'[2] = Second(answer)
  BY <1>1, <1>4 DEF answer
<1>9. Piece(1)' = First(answer) /\ Piece(2)' = Second(answer)
  <2>1. Len(inbox') = 0 /\ 1 - Len(inbox') = 1 /\ 2 - Len(inbox') = 2
    BY <1>4, <1>5
  <2> QED
    BY <1>8, <2>1 DEF Piece
<1>10. \A k \in 1..2 : /\ Piece(k)'.chunk = k
                       /\ Piece(k)'.message = answer
  <2>1. \A k \in 1..2 : k = 1 \/ k = 2
    OBVIOUS
  <2> QED
    BY <1>9, <2>1 DEF First, Second
<1> QED
  BY <1>6, <1>7, <1>10 DEF ProperPieces, ProperResults

\* Such a response is good enough to go on.
LEMMA ParseProper ==
    ASSUME TypeOK, ThreadInv, StreamInv, ProperInv, ~faulty, Parse
    PROVE  open'
<1> DEFINE m == inbox[1].message
<1>1. phase = "parse" /\ open /\ open' = KeepsConnection(m) /\ NoRepeat
  BY DEF Parse, ThreadInv, Sending, NoRepeat
<1>2. inbox \in Seq(Chunk) /\ Len(inbox) = 2
  BY <1>1 DEF TypeOK, ThreadInv, CHUNKS
<1>3. inbox[1] \in Chunk /\ inbox[2] \in Chunk
  BY <1>2, ElementOfSeq
<1>4. /\ Pieces \in Nat /\ Pieces >= 2
      /\ Piece(1) = inbox[1] /\ Piece(2) = inbox[2]
  BY <1>2, Lengths DEF Pieces, Piece
<1>5. /\ inbox[1].chunk = 1 /\ inbox[2].chunk = 2 /\ inbox[2].message = m
      /\ m.result \in ProperResults(type)
  <2>1. 1 \in 1..Pieces /\ 2 \in 1..Pieces
    BY <1>4
  <2>2. ProperPieces
    BY <1>1 DEF ProperInv
  <2> QED
    BY <1>4, <2>1, <2>2 DEF ProperPieces
<1>6. inbox[1] = First(m) /\ inbox[2] = Second(m) /\ m \in Message
  BY <1>3, <1>5 DEF Chunk, First, Second
<1>7. inbox = Chunks(m)
  <2>1. /\ Chunks(m) \in Seq(Chunk) /\ Len(Chunks(m)) = 2
        /\ Chunks(m)[1] = First(m) /\ Chunks(m)[2] = Second(m)
    BY <1>6, TwoPieces
  <2> QED
    BY <1>2, <1>6, <2>1, SeqEqual
<1>8. m.id = id /\ m.type = type
  <2>1. 1 \in 1..Len(inbox)
    BY <1>2
  <2> QED
    BY <1>1, <2>1 DEF StreamInv, AllCurrent, IsCurrent
<1>9. IsMessage(inbox)
  BY <1>2, <1>7 DEF IsMessage, CHUNKS
<1> HIDE DEF m
<1>10. KeepsConnection(m)
  BY <1>5, <1>8, <1>9 DEF KeepsConnection, IsResponse, ProperResults
<1> QED
  BY <1>1, <1>10

\* As long as the server is proper, every step keeps a connection it needs.
LEMMA ProperStep ==
    TypeOK /\ ThreadInv /\ StreamInv /\ ProperInv /\ [Next]_vars => ProperInv'
<1> SUFFICES ASSUME TypeOK, ThreadInv, StreamInv, ProperInv, [Next]_vars, ~faulty' PROVE ProperInv'
  BY DEF ProperInv
<1>1. ASSUME ~faulty, NEW n \in 1..CHUNKS, Read(n) PROVE ProperInv'
  <2>1. open /\ phase = "receive" /\ UNCHANGED <<faulty, gone, transport, open>>
        /\ phase' # "crashed"
    BY <1>1 DEF Read, ThreadInv, Sending
  <2>2. ProperPieces'
    BY <1>1, <2>1, ReadPieces DEF ProperInv
  <2> QED
    BY <1>1, <2>1, <2>2 DEF ProperInv
<1>2. ASSUME ~faulty, NEW n \in 1..CHUNKS, Write(n) PROVE ProperInv'
  <2>1. open /\ phase = "send" /\ UNCHANGED <<faulty, gone, transport, open, inbox, down>>
        /\ phase' # "crashed"
    BY <1>2 DEF Write, ThreadInv, Sending
  <2>2. Len(inbox') = 0 /\ Len(down') = 0
    BY <1>2, <2>1, EmptySeq DEF ThreadInv, StreamInv, NoRepeat
  <2>3. ProperPieces'
    BY <2>2 DEF ProperPieces, Pieces
  <2> QED
    BY <1>2, <2>1, <2>3 DEF ProperInv
<1>3. ASSUME ~faulty, Respond PROVE ProperInv'
  <2>1. UNCHANGED <<faulty, gone, transport, open, phase>>
    BY <1>3 DEF Respond, thread
  <2>2. open /\ phase \in {"receive", "parse"} => ProperPieces'
    BY <1>3, RespondPieces DEF NoRepeat
  <2> QED
    BY <1>3, <2>1, <2>2 DEF ProperInv
<1>4. ASSUME ~faulty, ServerReads \/ UNCHANGED vars PROVE ProperInv'
  <2>1. UNCHANGED <<faulty, gone, transport, open, phase, inbox, down, type>>
    BY <1>4 DEF ServerReads, vars, thread, peer
  <2>2. ProperPieces => ProperPieces'
    BY <2>1 DEF ProperPieces, Pieces, Piece, ProperResults
  <2> QED
    BY <1>4, <2>1, <2>2 DEF ProperInv
<1>5. ASSUME ~faulty, Parse PROVE ProperInv'
  <2>1. open' /\ phase' = "idle" /\ UNCHANGED <<faulty, gone>>
    BY <1>5, ParseProper DEF Parse, Fail, peer
  <2> QED
    BY <1>5, <2>1 DEF ProperInv
<1>6. ASSUME ~faulty, WriteFails \/ ReadFails PROVE ProperInv'
  <2>1. /\ transport # "inherited-fds" /\ phase' = "idle"
        /\ UNCHANGED <<faulty, gone, transport>>
    BY <1>6 DEF WriteFails, ReadFails, MayFail, Fail, peer, ProperInv
  <2> QED
    BY <1>6, <2>1 DEF ProperInv
<1>7. ASSUME ~faulty, (\E t \in Types : Ask(t)) \/ FdsOpen \/ ConnectFails \/ Construct \/ RefuseToAsk
      PROVE  ProperInv'
  <2>1. /\ phase' \notin {"receive", "parse", "crashed"}
        /\ UNCHANGED <<faulty, gone, transport, open>>
    BY <1>7 DEF Ask, FdsOpen, ConnectFails, Construct, RefuseToAsk, Fail, peer
  <2> QED
    BY <1>7, <2>1 DEF ProperInv
<1>8. ASSUME ~faulty, Connect PROVE ProperInv'
  BY <1>8 DEF Connect, ProperInv
<1>9. ASSUME ~faulty, NoMoreFds PROVE ProperInv'
  BY <1>9 DEF NoMoreFds, ProperInv
<1>10. CASE RespondMalformed \/ Duplicate \/ Leave
  BY <1>10 DEF RespondMalformed, Duplicate, Leave
<1>11. ~RespondMalformed /\ ~Duplicate /\ ~Leave => faulty' = faulty
  BY DEF Next, ThreadStep, ServerStep, Ask, FdsOpen, Connect, ConnectFails, NoMoreFds, Construct,
     RefuseToAsk, Write, Read, WriteFails, ReadFails, Parse, ServerReads, Respond, vars, thread, peer
<1> QED
  BY <1>1, <1>2, <1>3, <1>4, <1>5, <1>6, <1>7, <1>8, <1>9, <1>10, <1>11, Steps

(***************************************************************************)
(* Where messages are repeated, their identifiers tell them apart.         *)
(***************************************************************************)

\* The next identifier, one further or the first again.
LEMMA NextIdentifiers ==
    ASSUME NEW i \in 0..(IdSpace - 1)
    PROVE  /\ (i + 1) % IdSpace \in 0..(IdSpace - 1)
           /\ i + 1 < IdSpace => (i + 1) % IdSpace = i + 1
           /\ i + 1 = IdSpace => (i + 1) % IdSpace = 0
<1>1. IdSpace \in Nat \ {0} /\ i \in Nat
  BY TransportAssumption
<1> QED
  BY <1>1

\* Leaving a phase leaves a message as old as it is.
LEMMA DatedStays ==
    ASSUME NEW m \in Message, NEW n \in Nat, NEW i \in 0..(IdSpace - 1), NEW p, NEW q,
           q \in Sending => p \in Sending,
           q \in {"ensure", "construct"} => p \in {"ensure", "construct"},
           IsDated(m, p, n, i)
    PROVE  IsDated(m, q, n, i)
<1>1. PICK k \in Nat : AtLeast(m, p, n) <= k /\ k <= AtMost(m, p, n) /\ IsFurther(i, m.id, k)
  BY DEF IsDated
<1>2. m.for \in 1..n
  BY DEF IsDated
<1>3. AtLeast(m, q, n) <= k
  BY <1>1, <1>2 DEF AtLeast
<1>4. k <= AtMost(m, q, n)
  BY <1>1, <1>2 DEF AtMost
<1> QED
  BY <1>1, <1>2, <1>3, <1>4 DEF IsDated

\* A new lookup.
LEMMA DatedAsk ==
    ASSUME NEW m \in Message, NEW n \in Nat, NEW i \in 0..(IdSpace - 1), IsDated(m, "idle", n, i)
    PROVE  IsDated(m, "ensure", n + 1, i)
<1>1. PICK k \in Nat : AtLeast(m, "idle", n) <= k /\ k <= AtMost(m, "idle", n) /\ IsFurther(i, m.id, k)
  BY DEF IsDated
<1>2. m.for \in 1..n /\ m.for \in 1..(n + 1)
  BY DEF IsDated
<1>3. AtLeast(m, "ensure", n + 1) <= k /\ k <= AtMost(m, "ensure", n + 1)
  BY <1>1, <1>2 DEF AtLeast, AtMost, Sending
<1> QED
  BY <1>1, <1>2, <1>3 DEF IsDated

\* The next identifier is taken: the numbers go around once at most.
LEMMA DatedNext ==
    ASSUME MaxLookups <= IdSpace,
           NEW m \in Message, NEW n \in 0..MaxLookups, NEW i \in 0..(IdSpace - 1),
           NEW q \in {"send", "idle"},
           IsDated(m, "construct", n, i)
    PROVE  IsDated(m, q, n, (i + 1) % IdSpace)
<1>1. PICK k \in Nat :
        AtLeast(m, "construct", n) <= k /\ k <= AtMost(m, "construct", n) /\ IsFurther(i, m.id, k)
  BY DEF IsDated
<1>2. /\ m.for \in 1..n /\ m.id \in 0..(IdSpace - 1)
      /\ IdSpace \in Nat \ {0} /\ MaxLookups \in Nat /\ n \in Nat /\ n <= MaxLookups
  BY TransportAssumption DEF IsDated, Message
<1>3. k >= 1 /\ k <= n - m.for /\ k <= IdSpace - 1
  BY <1>1, <1>2 DEF AtLeast, AtMost, Sending
<1>4. AtLeast(m, q, n) <= k + 1 /\ k + 1 <= AtMost(m, q, n) /\ k + 1 \in Nat
  BY <1>2, <1>3 DEF AtLeast, AtMost, Sending
<1>5. IsFurther((i + 1) % IdSpace, m.id, k + 1)
  <2>1. CASE i + 1 < IdSpace
    BY <1>1, <1>2, <2>1, NextIdentifiers DEF IsFurther
  <2>2. CASE i + 1 = IdSpace
    <3>1. i = m.id + k
      BY <1>1, <1>2, <1>3, <2>2 DEF IsFurther
    <3>2. m.id + (k + 1) - IdSpace = 0
      BY <1>2, <2>2, <3>1
    <3> QED
      BY <2>2, <3>2, NextIdentifiers DEF IsFurther
  <2> QED
    BY <1>2, <2>1, <2>2
<1> QED
  BY <1>2, <1>4, <1>5 DEF IsDated

\* The request of the current lookup.
LEMMA DatedRequest ==
    ASSUME NEW n \in Nat, n > 0, NEW j \in Nat, NEW t, NEW i, IsFurther(i, j, 1),
           NEW p \in Sending
    PROVE  IsDated(Request(n, j, t), p, n, i)
<1> DEFINE m == Request(n, j, t)
<1>1. m.for = n /\ m.id = j
  BY DEF Request
<1> HIDE DEF m
<1>2. m.for \in 1..n /\ AtLeast(m, p, n) <= 1 /\ 1 <= AtMost(m, p, n)
  BY <1>1 DEF AtLeast, AtMost, Sending
<1> QED
  BY <1>1, <1>2 DEF IsDated, m

\* A message with the current identifier is of the current lookup.
LEMMA DatedCurrent ==
    ASSUME MaxLookups <= IdSpace,
           NEW m \in Message, NEW n \in 0..MaxLookups, NEW i \in 0..(IdSpace - 1),
           IsDated(m, "parse", n, i), IsFurther(i, m.id, 1)
    PROVE  m.for = n
<1>1. PICK k \in Nat :
        AtLeast(m, "parse", n) <= k /\ k <= AtMost(m, "parse", n) /\ IsFurther(i, m.id, k)
  BY DEF IsDated
<1>2. /\ m.for \in 1..n /\ m.id \in 0..(IdSpace - 1)
      /\ IdSpace \in Nat \ {0} /\ MaxLookups \in Nat /\ n \in Nat /\ n <= MaxLookups
  BY TransportAssumption DEF IsDated, Message
<1>3. k <= IdSpace
  BY <1>1, <1>2 DEF AtMost
<1>4. k = 1
  BY <1>1, <1>2, <1>3 DEF IsFurther, AtLeast
<1> QED
  BY <1>1, <1>2, <1>4 DEF AtLeast, Sending

\* What is on its way are messages.
LEMMA OnTheWayTyped == TypeOK => OnTheWay \subseteq Message
<1> SUFFICES ASSUME TypeOK PROVE OnTheWay \subseteq Message
  OBVIOUS
<1>1. ASSUME NEW s \in Seq(Chunk), NEW k \in 1..Len(s) PROVE s[k].message \in Message
  <2>1. s[k] \in Chunk
    BY ElementOfSeq
  <2> QED
    BY <2>1 DEF Chunk
<1>2. \A k \in 1..Len(asked) : asked[k] \in Message
  BY ElementOfSeq DEF TypeOK
<1>3. up \in Seq(Chunk) /\ down \in Seq(Chunk) /\ inbox \in Seq(Chunk) /\ last \in Message
  BY DEF TypeOK
<1>4. /\ \A k \in 1..Len(up) : up[k].message \in Message
      /\ \A k \in 1..Len(down) : down[k].message \in Message
      /\ \A k \in 1..Len(inbox) : inbox[k].message \in Message
  BY <1>1, <1>3
<1> QED
  BY <1>2, <1>3, <1>4 DEF OnTheWay, InUp, InAsked, InDown, InInbox, InLast

\* A message on its way has been there before, or is the current request, or
\* the response to a message that has been there.
LEMMA OnTheWayStep ==
    ASSUME TypeOK, ThreadInv, UpInv, [Next]_vars
    PROVE  \A m \in OnTheWay' :
             \/ m \in OnTheWay
             \/ phase = "send" /\ m = Request(lookup, id, type)
             \/ \E q \in OnTheWay : m.for = q.for /\ m.id = q.id
<1>1. ASSUME NEW n \in 1..CHUNKS, Write(n)
      PROVE  \A m \in OnTheWay' : m \in OnTheWay \/ (phase = "send" /\ m = Request(lookup, id, type))
  <2> DEFINE request == Request(lookup, id, type)
  <2>1. /\ Len(up') = Len(up) + n
        /\ \A k \in 1..Len(up) : up'[k] = up[k]
        /\ \A k \in 1..n : up'[Len(up) + k] = IF moved + k = 1 THEN First(request) ELSE Second(request)
    BY <1>1, Written
  <2>2. First(request).message = request /\ Second(request).message = request
    BY DEF First, Second
  <2>3. phase = "send" /\ UNCHANGED <<asked, down, inbox, last>> /\ n \in Nat
    BY <1>1 DEF Write, CHUNKS
  <2> HIDE DEF request
  <2>4. ASSUME NEW k \in 1..Len(up') PROVE up'[k].message = request \/ (k \in 1..Len(up) /\ up'[k] = up[k])
    <3>1. CASE k <= Len(up)
      BY <2>1, <3>1, Lengths
    <3>2. CASE k > Len(up)
      <4>1. k - Len(up) \in 1..n /\ Len(up) + (k - Len(up)) = k
        BY <2>1, <2>3, <3>2, Lengths
      <4>2. up'[k] = First(request) \/ up'[k] = Second(request)
        BY <2>1, <4>1
      <4> QED
        BY <2>2, <4>2
    <3> QED
      BY <3>1, <3>2, Lengths
  <2>5. \A k \in 1..Len(up') : up'[k].message = request \/ up'[k].message \in {up[j].message : j \in 1..Len(up)}
    BY <2>4
  <2>6. \A m \in InUp' : m \in InUp \/ m = request
    BY <2>5 DEF InUp
  <2>7. InAsked' = InAsked /\ InDown' = InDown /\ InInbox' = InInbox /\ InLast' = InLast
    BY <2>3, Zenon DEF InAsked, InDown, InInbox, InLast, NoMessage, Request
  <2>8. \A m \in OnTheWay' : m \in OnTheWay \/ m = request
    BY <2>6, <2>7 DEF OnTheWay
  <2> QED
    BY <2>3, <2>8 DEF request
<1>2. ASSUME NEW n \in 1..CHUNKS, Read(n)
      PROVE  \A m \in OnTheWay' : m \in OnTheWay
  <2>1. /\ Len(inbox') = Len(inbox) + n
        /\ \A k \in 1..Len(inbox) : inbox'[k] = inbox[k]
        /\ \A k \in 1..n : inbox'[Len(inbox) + k] = down[k]
        /\ n <= Len(down)
        /\ Len(down') = Len(down) - n
        /\ \A k \in 1..(Len(down) - n) : down'[k] = down[k + n]
    BY <1>2, Received
  <2>2. UNCHANGED <<asked, up, last>> /\ n \in Nat
    BY <1>2 DEF Read, CHUNKS
  <2>3. ASSUME NEW k \in 1..Len(inbox')
        PROVE  \/ k \in 1..Len(inbox) /\ inbox'[k] = inbox[k]
               \/ k - Len(inbox) \in 1..Len(down) /\ inbox'[k] = down[k - Len(inbox)]
    <3>1. CASE k <= Len(inbox)
      BY <2>1, <3>1, Lengths
    <3>2. CASE k > Len(inbox)
      <4>1. k - Len(inbox) \in 1..n /\ k - Len(inbox) \in 1..Len(down) /\ Len(inbox) + (k - Len(inbox)) = k
        BY <2>1, <2>2, <3>2, Lengths
      <4> QED
        BY <2>1, <4>1
    <3> QED
      BY <3>1, <3>2, Lengths
  <2>4. ASSUME NEW k \in 1..Len(down') PROVE k + n \in 1..Len(down) /\ down'[k] = down[k + n]
    <3>1. k \in 1..(Len(down) - n) /\ k + n \in 1..Len(down)
      BY <2>1, <2>2, Lengths
    <3> QED
      BY <2>1, <3>1
  <2>5. \A k \in 1..Len(inbox') : inbox'[k].message \in {inbox[j].message : j \in 1..Len(inbox)}
                                                    \cup {down[j].message : j \in 1..Len(down)}
    BY <2>3
  <2>6. \A k \in 1..Len(down') : down'[k].message \in {down[j].message : j \in 1..Len(down)}
    BY <2>4
  <2>7. InInbox' \subseteq InInbox \cup InDown
    BY <2>5 DEF InInbox, InDown
  <2>8. InDown' \subseteq InDown
    BY <2>6 DEF InDown
  <2>9. InUp' = InUp /\ InAsked' = InAsked /\ InLast' = InLast
    BY <2>2, Zenon DEF InUp, InAsked, InLast, NoMessage, Request
  <2> QED
    BY <2>7, <2>8, <2>9 DEF OnTheWay
<1>3. ASSUME ServerReads
      PROVE  \A m \in OnTheWay' : m \in OnTheWay
  <2>1. /\ Len(up) >= 2 /\ Len(up') = Len(up) - 2
        /\ \A k \in 1..(Len(up) - 2) : up'[k] = up[k + 2]
        /\ Len(asked') = Len(asked) + 1
        /\ \A k \in 1..Len(asked) : asked'[k] = asked[k]
        /\ asked'[Len(asked) + 1] = up[1].message
    BY <1>3, Taken
  <2>2. UNCHANGED <<inbox, down, last>>
    BY <1>3 DEF ServerReads, thread
  <2>3. ASSUME NEW k \in 1..Len(up') PROVE k + 2 \in 1..Len(up) /\ up'[k] = up[k + 2]
    <3>1. k \in 1..(Len(up) - 2) /\ k + 2 \in 1..Len(up)
      BY <2>1, Lengths
    <3> QED
      BY <2>1, <3>1
  <2>4. ASSUME NEW k \in 1..Len(asked')
        PROVE  \/ k \in 1..Len(asked) /\ asked'[k] = asked[k]
               \/ 1 \in 1..Len(up) /\ asked'[k] = up[1].message
    <3>1. CASE k <= Len(asked)
      BY <2>1, <3>1, Lengths
    <3>2. CASE k > Len(asked)
      <4>1. k = Len(asked) + 1 /\ 1 \in 1..Len(up)
        BY <2>1, <3>2, Lengths
      <4> QED
        BY <2>1, <4>1
    <3> QED
      BY <3>1, <3>2, Lengths
  <2>5. \A k \in 1..Len(up') : up'[k].message \in {up[j].message : j \in 1..Len(up)}
    BY <2>3
  <2>6. \A k \in 1..Len(asked') : asked'[k] \in {asked[j] : j \in 1..Len(asked)}
                                           \cup {up[j].message : j \in 1..Len(up)}
    BY <2>4
  <2>7. InUp' \subseteq InUp
    BY <2>5 DEF InUp
  <2>8. InAsked' \subseteq InAsked \cup InUp
    BY <2>6 DEF InAsked, InUp
  <2>9. InDown' = InDown /\ InInbox' = InInbox /\ InLast' = InLast
    BY <2>2, Zenon DEF InDown, InInbox, InLast, NoMessage, Request
  <2> QED
    BY <2>7, <2>8, <2>9 DEF OnTheWay
<1>4. ASSUME Respond \/ RespondMalformed
      PROVE  \A m \in OnTheWay' : m \in OnTheWay \/ \E q \in OnTheWay : m.for = q.for /\ m.id = q.id
  <2>1. PICK r \in Results :
          LET answer == Response(asked[1], r) IN
            /\ asked[1] \in Message /\ last' = answer
            /\ Len(asked) >= 1 /\ Len(asked') = Len(asked) - 1
            /\ \A k \in 1..(Len(asked) - 1) : asked'[k] = asked[k + 1]
            /\ Len(down') = Len(down) + 2
            /\ \A k \in 1..Len(down) : down'[k] = down[k]
            /\ down'[Len(down) + 1] = First(answer)
            /\ down'[Len(down) + 2] = Second(answer)
    BY <1>4, Answered
  <2> DEFINE answer == Response(asked[1], r)
  <2>2. /\ First(answer).message = answer /\ Second(answer).message = answer
        /\ answer.for = asked[1].for /\ answer.id = asked[1].id
    BY <2>1, Messages DEF First, Second
  <2>3. UNCHANGED <<inbox, up>>
    BY <1>4 DEF Respond, RespondMalformed, thread
  <2> HIDE DEF answer
  <2>4. ASSUME NEW k \in 1..Len(down')
        PROVE  down'[k].message = answer \/ (k \in 1..Len(down) /\ down'[k] = down[k])
    <3>1. CASE k <= Len(down)
      BY <2>1, <3>1, Lengths
    <3>2. CASE k > Len(down)
      <4>1. k = Len(down) + 1 \/ k = Len(down) + 2
        BY <2>1, <3>2, Lengths
      <4>2. down'[k] = First(answer) \/ down'[k] = Second(answer)
        BY <2>1, <4>1 DEF answer
      <4> QED
        BY <2>2, <4>2
    <3> QED
      BY <3>1, <3>2, Lengths
  <2>5. ASSUME NEW k \in 1..Len(asked') PROVE k + 1 \in 1..Len(asked) /\ asked'[k] = asked[k + 1]
    <3>1. k \in 1..(Len(asked) - 1) /\ k + 1 \in 1..Len(asked)
      BY <2>1, Lengths
    <3> QED
      BY <2>1, <3>1
  <2>6. \A k \in 1..Len(down') : down'[k].message = answer
                                 \/ down'[k].message \in {down[j].message : j \in 1..Len(down)}
    BY <2>4
  <2>7. \A k \in 1..Len(asked') : asked'[k] \in {asked[j] : j \in 1..Len(asked)}
    BY <2>5
  <2>8. last' = answer
    BY <2>1 DEF answer
  <2>9. \A m \in InDown' : m \in InDown \/ m = answer
    BY <2>6 DEF InDown
  <2>10. InAsked' \subseteq InAsked
    BY <2>7 DEF InAsked
  <2>11. InUp' = InUp /\ InInbox' = InInbox
    BY <2>3, Zenon DEF InUp, InInbox
  <2>12. \A m \in InLast' : m = answer
    BY <2>8 DEF InLast
  <2>13. \A m \in OnTheWay' : m \in OnTheWay \/ m = answer
    BY <2>9, <2>10, <2>11, <2>12 DEF OnTheWay
  <2>14. asked[1] \in OnTheWay
    <3>1. 1 \in 1..Len(asked)
      BY <2>1, Lengths
    <3> QED
      BY <3>1 DEF OnTheWay, InAsked
  <2> QED
    BY <2>2, <2>13, <2>14
<1>5. ASSUME Duplicate
      PROVE  \A m \in OnTheWay' : m \in OnTheWay
  <2>1. /\ down' = down \o Chunks(last) /\ last # NoMessage
        /\ down \in Seq(Chunk) /\ last \in Message
        /\ UNCHANGED <<inbox, up, asked, last>>
    BY <1>5 DEF Duplicate, TypeOK, thread
  <2>2. /\ Len(down \o Chunks(last)) = Len(down) + 2
        /\ \A k \in 1..Len(down) : (down \o Chunks(last))[k] = down[k]
        /\ (down \o Chunks(last))[Len(down) + 1] = First(last)
        /\ (down \o Chunks(last))[Len(down) + 2] = Second(last)
    BY <2>1, Extended
  <2>3. /\ Len(down') = Len(down) + 2
        /\ \A k \in 1..Len(down) : down'[k] = down[k]
        /\ down'[Len(down) + 1] = First(last)
        /\ down'[Len(down) + 2] = Second(last)
    BY <2>1, <2>2, Zenon
  <2>4. First(last).message = last /\ Second(last).message = last
    BY DEF First, Second
  <2>5. ASSUME NEW k \in 1..Len(down')
        PROVE  down'[k].message = last \/ (k \in 1..Len(down) /\ down'[k] = down[k])
    <3>1. CASE k <= Len(down)
      BY <2>3, <3>1, Lengths
    <3>2. CASE k > Len(down)
      <4>1. k = Len(down) + 1 \/ k = Len(down) + 2
        BY <2>3, <3>2, Lengths
      <4> QED
        BY <2>3, <2>4, <4>1
    <3> QED
      BY <3>1, <3>2, Lengths
  <2>6. \A k \in 1..Len(down') : down'[k].message = last
                                 \/ down'[k].message \in {down[j].message : j \in 1..Len(down)}
    BY <2>5
  <2>7. \A m \in InDown' : m \in InDown \/ m = last
    BY <2>6 DEF InDown
  <2>8. last \in InLast
    BY <2>1 DEF InLast
  <2>9. InUp' = InUp /\ InAsked' = InAsked /\ InInbox' = InInbox /\ InLast' = InLast
    BY <2>1, Zenon DEF InUp, InAsked, InInbox, InLast, NoMessage, Request
  <2> QED
    BY <2>7, <2>8, <2>9 DEF OnTheWay
<1>6. ASSUME Leave
      PROVE  \A m \in OnTheWay' : m \in OnTheWay
  <2>1. UNCHANGED <<inbox, up, asked, last>>
    BY <1>6 DEF Leave, thread
  <2>2. Len(down') \in Nat /\ Len(down') <= Len(down) /\ \A k \in 1..Len(down') : down'[k] = down[k]
    BY <1>6, Cut
  <2>3. \A k \in 1..Len(down') : down'[k].message \in {down[j].message : j \in 1..Len(down)}
    BY <2>2, Lengths
  <2>4. InDown' \subseteq InDown
    BY <2>3 DEF InDown
  <2>5. InUp' = InUp /\ InAsked' = InAsked /\ InInbox' = InInbox /\ InLast' = InLast
    BY <2>1, Zenon DEF InUp, InAsked, InInbox, InLast, NoMessage, Request
  <2> QED
    BY <2>4, <2>5 DEF OnTheWay
<1>7. ASSUME \/ \E t \in Types : Ask(t)
             \/ FdsOpen \/ ConnectFails \/ NoMoreFds \/ Construct \/ RefuseToAsk \/ WriteFails \/ ReadFails
             \/ Parse
             \/ UNCHANGED vars
      PROVE  \A m \in OnTheWay' : m \in OnTheWay
  <2>1. UNCHANGED <<up, asked, down, last>>
    BY <1>7 DEF Ask, FdsOpen, ConnectFails, NoMoreFds, Construct, RefuseToAsk, WriteFails, ReadFails,
                Parse, vars, peer
  <2>2. inbox' = inbox \/ inbox' = <<>>
    BY <1>7 DEF Ask, FdsOpen, ConnectFails, NoMoreFds, Construct, RefuseToAsk, WriteFails, ReadFails,
                Parse, Fail, vars, thread
  <2>3. \A k \in 1..Len(inbox') : inbox'[k].message \in {inbox[j].message : j \in 1..Len(inbox)}
    BY <2>2, EmptySeq
  <2>4. InInbox' \subseteq InInbox
    BY <2>3 DEF InInbox
  <2>5. InUp' = InUp /\ InAsked' = InAsked /\ InDown' = InDown /\ InLast' = InLast
    BY <2>1, Zenon DEF InUp, InAsked, InDown, InLast, NoMessage, Request
  <2> QED
    BY <2>4, <2>5 DEF OnTheWay
<1>8. ASSUME Connect
      PROVE  \A m \in OnTheWay' : m \in OnTheWay
  <2>1. /\ Len(up') = 0 /\ Len(asked') = 0 /\ Len(down') = 0 /\ last' = NoMessage /\ inbox' = inbox
    BY <1>8, EmptySeq DEF Connect
  <2>2. InUp' = {} /\ InAsked' = {} /\ InDown' = {}
    BY <2>1 DEF InUp, InAsked, InDown
  <2>3. InInbox' = InInbox /\ InLast' = {}
    BY <2>1, Zenon DEF InInbox, InLast, NoMessage, Request
  <2> QED
    BY <2>2, <2>3 DEF OnTheWay
<1> QED
  BY <1>1, <1>2, <1>3, <1>4, <1>5, <1>6, <1>7, <1>8, Steps

\* Every step leaves a dated message dated.
LEMMA Ages ==
    ASSUME MaxLookups <= IdSpace, TypeOK, [Next]_vars,
           NEW m \in Message, IsDated(m, phase, lookup, identifier)
    PROVE  IsDated(m, phase', lookup', identifier')
<1>1. lookup \in 0..MaxLookups /\ lookup \in Nat /\ identifier \in 0..(IdSpace - 1)
  BY TransportAssumption DEF TypeOK
<1>2. ASSUME NEW t \in Types, Ask(t) PROVE IsDated(m, phase', lookup', identifier')
  <2>1. phase = "idle" /\ phase' = "ensure" /\ lookup' = lookup + 1 /\ identifier' = identifier
    BY <1>2 DEF Ask
  <2> QED
    BY <1>1, <2>1, DatedAsk
<1>3. CASE Construct \/ RefuseToAsk
  <2>1. /\ phase = "construct" /\ phase' \in {"send", "idle"} /\ lookup' = lookup
        /\ identifier' = (identifier + 1) % IdSpace
    BY <1>3 DEF Construct, RefuseToAsk, Fail, NextIdentifier
  <2> QED
    BY <1>1, <2>1, DatedNext
<1>4. ASSUME \/ FdsOpen \/ ConnectFails \/ NoMoreFds \/ WriteFails \/ ReadFails \/ Connect
             \/ \E n \in 1..CHUNKS : Write(n)
             \/ \E n \in 1..CHUNKS : Read(n)
             \/ Parse
             \/ ServerReads \/ Respond \/ RespondMalformed \/ Duplicate \/ Leave
             \/ UNCHANGED vars
      PROVE  IsDated(m, phase', lookup', identifier')
  <2>1. UNCHANGED <<lookup, identifier>>
    BY <1>4 DEF FdsOpen, ConnectFails, NoMoreFds, WriteFails, ReadFails, Connect, Write, Read, Parse,
                ServerReads, Respond, RespondMalformed, Duplicate, Leave, vars, thread
  <2>2. /\ phase' \in Sending => phase \in Sending
        /\ phase' \in {"ensure", "construct"} => phase \in {"ensure", "construct"}
    BY <1>4 DEF FdsOpen, ConnectFails, NoMoreFds, WriteFails, ReadFails, Connect, Write, Read, Parse,
                ServerReads, Respond, RespondMalformed, Duplicate, Leave, vars, thread, Fail, Sending
  <2> QED
    BY <1>1, <2>1, <2>2, DatedStays
<1> QED
  BY <1>2, <1>3, <1>4, Steps

\* So messages stay dated, also new ones.
LEMMA DatesStep ==
    ASSUME MaxLookups <= IdSpace, TypeOK, ThreadInv, UpInv, DatesInv, [Next]_vars
    PROVE  DatesInv'
<1>1. /\ lookup \in Nat /\ id \in Nat /\ identifier \in 0..(IdSpace - 1)
      /\ Request(lookup, id, type) \in Message
  BY TransportAssumption, Messages DEF TypeOK
<1>2. phase' # "idle" => lookup' > 0
  <2>1. lookup' = lookup + 1 \/ (lookup' = lookup /\ (phase' # "idle" => phase # "idle"))
    BY Steps DEF Ask, FdsOpen, ConnectFails, NoMoreFds, Construct, RefuseToAsk, WriteFails, ReadFails,
                 Connect, Write, Read, Parse, ServerReads, Respond, RespondMalformed, Duplicate, Leave,
                 Fail, vars, thread
  <2> QED
    BY <1>1, <2>1 DEF DatesInv
<1>3. phase' \in Sending => IsFurther(identifier', id', 1)
  <2>1. \/ phase' \in Sending => phase \in Sending /\ UNCHANGED <<identifier, id>>
        \/ identifier' = (identifier + 1) % IdSpace /\ id' = identifier
    BY Steps DEF Ask, FdsOpen, ConnectFails, NoMoreFds, Construct, RefuseToAsk, WriteFails, ReadFails,
                 Connect, Write, Read, Parse, ServerReads, Respond, RespondMalformed, Duplicate, Leave,
                 Fail, vars, thread, Sending, NextIdentifier
  <2>2. IsFurther((identifier + 1) % IdSpace, identifier, 1)
    BY <1>1, NextIdentifiers, TransportAssumption DEF IsFurther
  <2> QED
    BY <2>1, <2>2 DEF DatesInv
<1>4. ASSUME NEW m \in OnTheWay' PROVE IsDated(m, phase', lookup', identifier')
  <2>1. CASE m \in OnTheWay
    BY <2>1, Ages, OnTheWayTyped DEF DatesInv
  <2>2. CASE phase = "send" /\ m = Request(lookup, id, type)
    <3>1. IsDated(m, phase, lookup, identifier)
      BY <1>1, <2>2, DatedRequest DEF DatesInv, Sending
    <3> QED
      BY <1>1, <2>2, <3>1, Ages
  <2>3. CASE \E q \in OnTheWay : m.for = q.for /\ m.id = q.id
    <3>1. PICK q \in OnTheWay : m.for = q.for /\ m.id = q.id
      BY <2>3
    <3>2. IsDated(q, phase', lookup', identifier')
      BY <3>1, Ages, OnTheWayTyped DEF DatesInv
    <3> QED
      BY <3>1, <3>2 DEF IsDated, AtLeast, AtMost
  <2> QED
    BY <2>1, <2>2, <2>3, OnTheWayStep
<1> QED
  BY <1>2, <1>3, <1>4 DEF DatesInv

(***************************************************************************)
(* The theorems.                                                           *)
(***************************************************************************)

\* What holds whatever there is too few of.
Inv == TypeOK /\ ThreadInv /\ UpInv /\ StreamInv /\ ProperInv

\* Everything holds at the start,
LEMMA InitInv == Init => Inv /\ DatesInv
<1> SUFFICES ASSUME Init PROVE Inv /\ DatesInv
  OBVIOUS
<1>1. TypeOK /\ ThreadInv
  BY InitTyped
<1>2. Len(up) = 0 /\ Len(asked) = 0 /\ Len(down) = 0 /\ Len(inbox) = 0 /\ last = NoMessage
  BY EmptySeq DEF Init
<1>3. phase = "idle" /\ up = <<>> /\ asked = <<>> /\ down = <<>> /\ gone = FALSE
  BY DEF Init
<1>4. UpInv
  BY <1>2, <1>3 DEF UpInv
<1>5. StreamInv
  BY <1>2, <1>3 DEF StreamInv, AllCurrent, Sending
<1>6. ProperInv
  <2>1. transport = "inherited-fds" => open
    BY DEF Init
  <2> QED
    BY <1>3, <2>1 DEF ProperInv
<1>7. DatesInv
  <2>1. OnTheWay = {}
    BY <1>2 DEF OnTheWay, InUp, InAsked, InDown, InInbox, InLast
  <2> QED
    BY <1>3, <2>1 DEF DatesInv, Sending
<1> QED
  BY <1>1, <1>4, <1>5, <1>6, <1>7 DEF Inv

\* is kept by every step,
LEMMA InvStep == Inv /\ [Next]_vars => Inv'
BY TypeStep, UpStep, StreamStep, ProperStep DEF Inv

\* and so always holds.
LEMMA Invariance == Spec => []Inv
<1>1. Init => Inv
  BY InitInv
<1> QED
  BY <1>1, InvStep, PTL DEF Spec

\* Every variable keeps its type.
THEOREM TypeCorrect == Spec => []TypeOK
<1>1. Inv => TypeOK
  BY DEF Inv
<1> QED
  BY <1>1, Invariance, PTL

\* Between two lookups an open connection to a server that has kept to the
\* protocol is empty, for any number of identifiers, any transport, and any
\* faults the server may still have in it.
THEOREM KeepsInStep == Spec => []InStep
<1>1. Inv => InStep
  BY DEF Inv, InStep, StreamInv, NoRepeat, Sending
<1> QED
  BY <1>1, Invariance, PTL

\* The server reads whole requests, whatever fails on the way.
THEOREM SendsWholeRequests == Spec => []RequestsAreWhole
<1>1. ASSUME Inv, Len(up) >= CHUNKS PROVE IsMessage(SubSeq(up, 1, CHUNKS))
  <2> DEFINE m == up[1].message
  <2>1. SubSeq(up, 1, CHUNKS) = Chunks(m) /\ m \in Message
    BY <1>1, FirstPieces DEF Inv
  <2> HIDE DEF m
  <2>2. Len(Chunks(m)) = 2 /\ Chunks(m)[1] = First(m)
    BY <2>1, TwoPieces
  <2>3. First(m).message = m
    BY DEF First
  <2> QED
    BY <2>1, <2>2, <2>3 DEF IsMessage, CHUNKS
<1>2. Inv => RequestsAreWhole
  BY <1>1 DEF RequestsAreWhole
<1> QED
  BY <1>2, Invariance, PTL

\* No proper server ends the process.
THEOREM CrashesOnlyOnFault == Spec => []CrashNeedsFault
<1>1. Inv => CrashNeedsFault
  BY DEF Inv, CrashNeedsFault, ProperInv
<1> QED
  BY <1>1, Invariance, PTL

(***************************************************************************)
(* Every lookup gets on.                                                   *)
(***************************************************************************)

\* What is on its way on a connection, and with the thread, in pieces.
Carried == Len(up) + CHUNKS * Len(asked) + Len(down) + Len(inbox)

\* Once a request has been sent there is a message on its way for as long as
\* the server is there, however much it repeats.
CarriedInv == open /\ ~gone /\ phase \in {"receive", "parse"} => Carried >= CHUNKS

\* A sent request is a whole message, even if it has been sent in two calls.
LEMMA WriteCarries ==
    ASSUME TypeOK, UpInv, CarriedInv, NEW n \in 1..CHUNKS, Write(n)
    PROVE  CarriedInv'
<1>1. /\ n \in 1..2 /\ moved \in 0..1 /\ phase = "send" /\ open' = open
      /\ UNCHANGED <<asked, down, inbox>>
      /\ IF moved + n = 2 THEN phase' = "receive" ELSE phase' = "send"
  BY DEF Write, TypeOK, CHUNKS
<1>2. Len(up') = Len(up) + n
  BY Written
<1>3. open /\ moved = 1 => Len(up) > 0
  BY <1>1 DEF UpInv
<1>4. Len(asked') = Len(asked) /\ Len(down') = Len(down) /\ Len(inbox') = Len(inbox)
  BY <1>1
<1> QED
  BY <1>1, <1>2, <1>3, <1>4, Lengths DEF CarriedInv, Carried, CHUNKS

\* Pieces that are read, taken or answered stay on their way.
LEMMA MovesCarry ==
    ASSUME TypeOK, UpInv, CarriedInv,
           (\E n \in 1..CHUNKS : Read(n)) \/ ServerReads \/ Respond \/ RespondMalformed \/ Duplicate
    PROVE  CarriedInv'
<1>1. ASSUME NEW n \in 1..CHUNKS, Read(n) PROVE CarriedInv'
  <2>1. /\ Len(inbox') = Len(inbox) + n /\ Len(down') = Len(down) - n
        /\ n \in Nat /\ phase = "receive"
        /\ UNCHANGED <<up, asked, open, gone>>
    BY <1>1, Received DEF Read, CHUNKS
  <2>2. Len(up') = Len(up) /\ Len(asked') = Len(asked)
    BY <2>1
  <2> QED
    BY <2>1, <2>2, Lengths DEF CarriedInv, Carried, CHUNKS
<1>2. CASE ServerReads
  <2>1. /\ Len(up') = Len(up) - 2 /\ Len(asked') = Len(asked) + 1
        /\ UNCHANGED <<down, inbox, open, gone, phase>>
    BY <1>2, Taken DEF ServerReads, thread
  <2>2. Len(down') = Len(down) /\ Len(inbox') = Len(inbox)
    BY <2>1
  <2> QED
    BY <2>1, <2>2, Lengths DEF CarriedInv, Carried, CHUNKS
<1>3. CASE Respond \/ RespondMalformed
  <2>1. Len(asked) >= 1 /\ Len(asked') = Len(asked) - 1 /\ Len(down') = Len(down) + 2
    BY <1>3, Answered
  <2>2. UNCHANGED <<up, inbox, open, gone, phase>>
    <3>1. CASE Respond
      BY <3>1 DEF Respond, thread
    <3>2. CASE RespondMalformed
      BY <3>2 DEF RespondMalformed, thread
    <3> QED
      BY <1>3, <3>1, <3>2
  <2>3. Len(up') = Len(up) /\ Len(inbox') = Len(inbox)
    BY <2>2
  <2> QED
    BY <2>1, <2>2, <2>3, Lengths DEF CarriedInv, Carried, CHUNKS
<1>4. CASE Duplicate
  <2>1. /\ down' = down \o Chunks(last) /\ down \in Seq(Chunk) /\ last \in Message
        /\ UNCHANGED <<up, asked, inbox, open, gone, phase>>
    BY <1>4 DEF Duplicate, TypeOK, thread
  <2>2. Chunks(last) \in Seq(Chunk) /\ Len(Chunks(last)) = 2
    BY <2>1, TwoPieces
  <2>3. Len(down') = Len(down) + 2
    <3>1. Len(down \o Chunks(last)) = Len(down) + Len(Chunks(last))
      BY <2>1, <2>2, ConcatProperties, Zenon
    <3> QED
      BY <2>1, <2>2, <3>1
  <2>4. Len(up') = Len(up) /\ Len(asked') = Len(asked) /\ Len(inbox') = Len(inbox)
    BY <2>1
  <2> QED
    BY <2>1, <2>3, <2>4, Lengths DEF CarriedInv, Carried, CHUNKS
<1> QED
  BY <1>1, <1>2, <1>3, <1>4

\* Other steps end the waiting, do not begin it, or end the server.
LEMMA CarriedStep == TypeOK /\ UpInv /\ CarriedInv /\ [Next]_vars => CarriedInv'
<1> SUFFICES ASSUME TypeOK, UpInv, CarriedInv, [Next]_vars PROVE CarriedInv'
  OBVIOUS
<1>1. CASE \/ (\E t \in Types : Ask(t)) \/ FdsOpen \/ ConnectFails \/ NoMoreFds
           \/ Construct \/ RefuseToAsk \/ WriteFails \/ ReadFails \/ Connect \/ Parse
  <2>1. phase' \notin {"receive", "parse"}
    BY <1>1 DEF Ask, FdsOpen, ConnectFails, NoMoreFds, Construct, RefuseToAsk, WriteFails,
                ReadFails, Connect, Parse, Fail
  <2> QED
    BY <2>1 DEF CarriedInv
<1>2. CASE Leave
  BY <1>2 DEF Leave, CarriedInv
<1>3. CASE UNCHANGED vars
  BY <1>3, Lengths DEF vars, thread, peer, CarriedInv, Carried
<1> QED
  BY <1>1, <1>2, <1>3, Steps, WriteCarries, MovesCarry

\* What the thread waits for is on its way as soon as it waits.
LEMMA DueNow ==
    ASSUME TypeOK, ThreadInv, UpInv, CarriedInv
    PROVE  AnswerIsDue
<1> SUFFICES ASSUME open, ~gone, phase = "receive", down = <<>>, asked = <<>>
             PROVE  Len(up) >= 2
  BY DEF AnswerIsDue, CHUNKS
<1>1. Len(down) = 0 /\ Len(asked) = 0 /\ Len(inbox) = moved /\ moved \in 0..1
  BY EmptySeq DEF ThreadInv, TypeOK, CHUNKS
<1>2. Len(up) >= 1
  BY <1>1, Lengths DEF CarriedInv, Carried, CHUNKS
<1>3. up[1].chunk = 1 /\ up[Len(up)].chunk = 2
  BY <1>2, Lengths DEF UpInv
<1>4. Len(up) # 1
  BY <1>3
<1> QED
  BY <1>2, <1>4, Lengths

\* A thread never waits for an answer while the server waits for a request,
\* whatever the server repeats, garbles, or lets time out.
THEOREM NobodyWaitsForNothing == Spec => []AnswerIsDue
<1>1. Init => CarriedInv
  BY DEF Init, CarriedInv
<1>2. Inv => TypeOK /\ ThreadInv /\ UpInv
  BY DEF Inv
<1> QED
  BY <1>1, <1>2, CarriedStep, DueNow, Invariance, PTL DEF Spec

\* Each of the thread's steps is one less to take; the steps of others are
\* none of its own.
LEMMA Advance ==
    ASSUME TypeOK, ThreadInv, [Next]_vars
    PROVE  /\ ThreadStep => StepsLeft' < StepsLeft
           /\ phase # "idle" => StepsLeft' <= StepsLeft
<1>1. moved \in 0..1 /\ (phase \notin {"send", "receive"} => moved = 0)
  BY DEF TypeOK, ThreadInv, CHUNKS
<1>2. ASSUME ThreadStep PROVE StepsLeft' < StepsLeft
  <2>1. CASE FdsOpen \/ Connect
    BY <1>1, <2>1 DEF FdsOpen, Connect, StepsLeft
  <2>2. CASE ConnectFails \/ NoMoreFds \/ RefuseToAsk \/ WriteFails \/ ReadFails
    <3>1. phase' \in {"idle", "crashed"} /\ phase \in {"ensure", "construct", "send", "receive"}
      BY <2>2 DEF ConnectFails, NoMoreFds, RefuseToAsk, WriteFails, ReadFails, Fail
    <3> QED
      BY <1>1, <3>1 DEF StepsLeft
  <2>3. CASE Construct
    BY <1>1, <2>3 DEF Construct, StepsLeft
  <2>4. ASSUME NEW n \in 1..CHUNKS, Write(n) PROVE StepsLeft' < StepsLeft
    <3>1. /\ n \in 1..2 /\ phase = "send"
          /\ IF moved + n = 2 THEN phase' = "receive" /\ moved' = 0
             ELSE phase' = "send" /\ moved' = moved + n
      BY <2>4 DEF Write, CHUNKS
    <3> QED
      BY <1>1, <3>1 DEF StepsLeft
  <2>5. ASSUME NEW n \in 1..CHUNKS, Read(n) PROVE StepsLeft' < StepsLeft
    <3>1. /\ n \in 1..2 /\ phase = "receive"
          /\ IF moved + n = 2 THEN phase' = "parse" /\ moved' = 0
             ELSE phase' = "receive" /\ moved' = moved + n
      BY <2>5 DEF Read, CHUNKS
    <3> QED
      BY <1>1, <3>1 DEF StepsLeft
  <2>6. CASE Parse
    BY <2>6 DEF Parse, Fail, StepsLeft
  <2> QED
    BY <1>2, <2>1, <2>2, <2>3, <2>4, <2>5, <2>6 DEF ThreadStep
<1>3. StepsLeft \in Nat
  BY <1>1 DEF StepsLeft
<1>4. ASSUME phase # "idle", ~ThreadStep PROVE StepsLeft' = StepsLeft
  <2>1. ~\E t \in Types : Ask(t)
    BY <1>4 DEF Ask
  <2>2. UNCHANGED thread
    <3>1. \/ ServerReads \/ Respond \/ RespondMalformed \/ Duplicate \/ Leave
          \/ UNCHANGED vars
      BY <1>4, <2>1 DEF Next, ServerStep
    <3> QED
      BY <3>1 DEF ServerReads, Respond, RespondMalformed, Duplicate, Leave, vars
  <2> QED
    BY <2>2 DEF thread, StepsLeft
<1>5. StepsLeft' <= StepsLeft \/ ~(StepsLeft' = StepsLeft)
  BY <1>3
<1>6. ASSUME ThreadStep PROVE StepsLeft' <= StepsLeft
  <2>1. StepsLeft' < StepsLeft /\ StepsLeft \in Nat
    BY <1>2, <1>3, <1>6
  <2>2. StepsLeft' \in Int
    <3>1. TypeOK'
      BY TypeStep
    <3>2. moved' \in 0..1
      BY <3>1 DEF TypeOK, CHUNKS
    <3> QED
      BY <3>2 DEF StepsLeft
  <2> QED
    BY <2>1, <2>2
<1> QED
  BY <1>2, <1>4, <1>5, <1>6

\* A lookup is over after at most seven steps of its thread: it cannot go
\* round and round, and with every answer due it stops only for the server.
THEOREM LookupsAdvance == Spec => LookupAdvances
<1>1. Inv => TypeOK /\ ThreadInv
  BY DEF Inv
<1>2. TypeOK /\ ThreadInv /\ [Next]_vars
      => [/\ ThreadStep => StepsLeft' < StepsLeft
          /\ phase # "idle" => StepsLeft' <= StepsLeft]_vars
  BY Advance
<1> QED
  BY <1>1, <1>2, Invariance, PTL DEF Spec, LookupAdvances

(***************************************************************************)
(* The refinement.                                                         *)
(***************************************************************************)

\* Nobody repeats messages, or an identifier does not come back; the code has
\* 2^32 of them.
IdsSuffice == "duplicate" \notin ServerFaults \/ MaxLookups <= IdSpace

FullInv == Inv /\ (MaxLookups <= IdSpace => DatesInv)

\* The same with the dates,
LEMMA FullStep == FullInv /\ [Next]_vars => FullInv'
<1>1. Inv => TypeOK /\ ThreadInv /\ UpInv
  BY DEF Inv
<1> QED
  BY <1>1, InvStep, DatesStep DEF FullInv

\* as far as there are enough identifiers.
LEMMA FullInvariance == Spec => []FullInv
<1>1. Init => FullInv
  BY InitInv DEF FullInv
<1> QED
  BY <1>1, FullStep, PTL DEF Spec

\* A response with the identifier and the type of the lookup is its answer.
LEMMA AnswersItsOwn ==
    ASSUME IdsSuffice, FullInv, phase = "parse",
           inbox[1].message.id = id, inbox[1].message.type = type
    PROVE  inbox[1].message.for = lookup
<1> DEFINE m == inbox[1].message
<1>1. TypeOK /\ ThreadInv /\ StreamInv /\ open /\ Len(inbox) = 2
  BY DEF FullInv, Inv, ThreadInv, Sending, CHUNKS
<1>2. 1 \in 1..Len(inbox) /\ m \in Message
  BY <1>1, ParsedMessage
<1>3. CASE "duplicate" \notin ServerFaults
  BY <1>1, <1>2, <1>3 DEF StreamInv, NoRepeat, AllCurrent, IsCurrent
<1>4. CASE MaxLookups <= IdSpace
  <2>1. m \in OnTheWay
    BY <1>2 DEF OnTheWay, InUp, InAsked, InDown, InInbox, InLast
  <2>2. IsDated(m, "parse", lookup, identifier) /\ IsFurther(identifier, m.id, 1)
    BY <1>4, <2>1 DEF FullInv, DatesInv, Sending
  <2>3. lookup \in 0..MaxLookups /\ identifier \in 0..(IdSpace - 1)
    BY <1>1 DEF TypeOK
  <2> HIDE DEF m
  <2>4. m.for = lookup
    BY <1>2, <1>4, <2>2, <2>3, DatedCurrent
  <2> QED
    BY <2>4 DEF m
<1> QED
  BY <1>3, <1>4 DEF IdsSuffice

\* A lookup starts as one.
LEMMA Starts == Init => Lookup!Init
<1> SUFFICES ASSUME Init PROVE Lookup!Init
  OBVIOUS
<1>1. phase = "idle" /\ lookup = 0 /\ type = "4to6_main" /\ outcome = "none" /\ answers = 0
  BY DEF Init
<1> QED
  BY <1>1 DEF Lookup!Init, MainTypes

\* A failure drops the packet.
LEMMA FailDrops ==
    ASSUME ThreadInv, phase \notin {"idle", "crashed"}, Fail("dropped"), UNCHANGED <<lookup, type, answers>>
    PROVE  Lookup!Drop
<1>1. answers = 0 /\ phase' = "idle" /\ outcome' = "dropped"
  BY DEF ThreadInv, Fail
<1> QED
  BY <1>1 DEF Lookup!Drop

\* A response ends the lookup with addresses or an error of its own, or with none.
LEMMA ParseEnds ==
    ASSUME IdsSuffice, FullInv, Parse
    PROVE  Lookup!End
<1> DEFINE m == inbox[1].message
<1>1. phase = "parse" /\ phase' = "idle" /\ UNCHANGED <<type, lookup>> /\ answers = 0 /\ ThreadInv
  BY DEF Parse, Fail, FullInv, Inv, ThreadInv
<1>2. (Translates(m) \/ IsUnreachable(m)) => m.for = lookup
  BY <1>1, AnswersItsOwn DEF Translates, IsUnreachable, IsResponse
<1>3. \/ Translates(m) /\ outcome' = "translated" /\ answers' = m.for
      \/ IsUnreachable(m) /\ outcome' = "unreachable" /\ answers' = m.for
      \/ outcome' = "dropped" /\ answers' = answers
  BY DEF Parse, Fail
<1>4. IsUnreachable(m) => type \in MainTypes
  BY DEF IsUnreachable
<1> HIDE DEF m
<1>5. CASE Translates(m) /\ outcome' = "translated" /\ answers' = m.for
  BY <1>1, <1>2, <1>5 DEF Lookup!End, Lookup!Translate
<1>6. CASE IsUnreachable(m) /\ outcome' = "unreachable" /\ answers' = m.for
  BY <1>1, <1>2, <1>4, <1>6 DEF Lookup!End, Lookup!Unreachable
<1>7. CASE outcome' = "dropped" /\ answers' = answers
  BY <1>1, <1>7 DEF Lookup!End, Lookup!Drop
<1> QED
  BY <1>3, <1>5, <1>6, <1>7

\* Every step is a step of the lookup or none.
LEMMA LookupStep ==
    ASSUME IdsSuffice, FullInv, [Next]_vars
    PROVE  Lookup!Next \/ UNCHANGED Lookup!vars
<1>1. ThreadInv
  BY DEF FullInv, Inv
<1>2. ASSUME NEW t \in Types, Ask(t) PROVE Lookup!Ask
  BY <1>2 DEF Ask, Lookup!Ask, Types
<1>3. CASE ConnectFails \/ RefuseToAsk \/ WriteFails \/ ReadFails
  <2>1. /\ phase \notin {"idle", "crashed"} /\ Fail("dropped")
        /\ UNCHANGED <<lookup, type, answers>>
    BY <1>3 DEF ConnectFails, RefuseToAsk, WriteFails, ReadFails
  <2> QED
    BY <1>1, <2>1, FailDrops DEF Lookup!Next, Lookup!End
<1>4. CASE NoMoreFds
  BY <1>4 DEF NoMoreFds, Lookup!Next, Lookup!End, Lookup!Crash
<1>5. CASE Parse
  BY <1>5, ParseEnds DEF Lookup!Next
<1>6. ASSUME \/ FdsOpen \/ Connect \/ Construct
             \/ \E n \in 1..CHUNKS : Write(n)
             \/ \E n \in 1..CHUNKS : Read(n)
      PROVE  UNCHANGED Lookup!vars
  <2>1. UNCHANGED <<lookup, type, outcome, answers>>
    BY <1>6 DEF FdsOpen, Connect, Construct, Write, Read
  <2>2. phase \notin {"idle", "crashed"} /\ phase' \notin {"idle", "crashed"}
    BY <1>6 DEF FdsOpen, Connect, Construct, Write, Read
  <2> QED
    BY <2>1, <2>2 DEF Lookup!vars
<1>7. CASE ServerReads \/ Respond \/ RespondMalformed \/ Duplicate \/ Leave \/ UNCHANGED vars
  <2>1. UNCHANGED <<lookup, type, outcome, answers, phase>>
    BY <1>7 DEF ServerReads, Respond, RespondMalformed, Duplicate, Leave, vars, thread
  <2> QED
    BY <2>1 DEF Lookup!vars
<1> QED
  BY <1>2, <1>3, <1>4, <1>5, <1>6, <1>7, Steps DEF Lookup!Next

\* With enough identifiers, or a server that repeats nothing, the thread uses
\* only the server's answer to the very lookup it was asked for.
THEOREM ImplementsLookupSafely ==
    ASSUME IdsSuffice
    PROVE  Spec => Lookup!Init /\ [][Lookup!Next]_(Lookup!vars)
<1>1. FullInv /\ [Next]_vars => [Lookup!Next]_(Lookup!vars)
  BY LookupStep
<1> QED
  BY <1>1, Starts, FullInvariance, PTL DEF Spec

=============================================================================
