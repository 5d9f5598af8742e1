------------------------------- MODULE Descriptors -------------------------------
(****************************************************************************)
(* The process's table of descriptors, which all its threads share: what    *)
(* the main thread opens or inherits and closes at the end                  *)
(* (opmode_translate.c, init_io.c), and the sockets to the external         *)
(* address translation server that the translator threads open and close    *)
(* while others do the same (xlat_addr_external.c, xlat_interrupt.c).  The  *)
(* kernel gives a closed number to whoever opens something next, so that a  *)
(* number kept for too long is another thread's socket.                     *)
(*                                                                          *)
(* When threads are told to stop, and that the main thread frees nothing    *)
(* before it has joined them all, is TranslatorThreads' subject.            *)
(****************************************************************************)
EXTENDS Integers

CONSTANTS
    N,          \* translator threads
    Fds,        \* the numbers of descriptors
    Setups      \* what is open at the start: descriptors for packets and,
                \* with inherited descriptors, for the server

Threads == 1..N
NONE == -1

ASSUME DescriptorsAssumption ==
    /\ N \in Nat \ {0}
    /\ Fds \subseteq Nat
    /\ Setups \subseteq [inherited : BOOLEAN, packet : [Threads -> Fds \X Fds],
                         external : [Threads -> (Fds \cup {NONE}) \X (Fds \cup {NONE})]]
    /\ \A s \in Setups : \A i \in Threads :
         s.external[i] \in IF s.inherited THEN Fds \X Fds ELSE {<<NONE, NONE>>}

VARIABLES
    setup,      \* one of Setups; it does not change
    open,       \* what a number stands for: a descriptor of the setup, a
                \* thread's socket, or nothing
    pc,         \* where a thread is
    readFd,     \* external_addr_xlat_state->read_fd
    writeFd,    \* external_addr_xlat_state->write_fd
    socketFd,   \* socket_fd in _open_socket(), until it is stored or closed
    told,       \* has a thread been told to stop?
    main        \* where the main thread is: <<"running">>, <<"stopping">>,
                \* <<"freeing", thread, descriptor>>, <<"done">> or <<"crashed">>

fds == <<readFd, writeFd, socketFd>>
descriptorsVars == <<setup, open, pc, fds, told, main>>

Closed == <<"closed", 0>>
Given(fd) == <<"given", fd>>
SocketOf(i) == <<"socket", i>>

\* The descriptors a thread has for its packets and for the server.
PairOf(pair) == {pair[1], pair[2]}
ServerFds(s) == (UNION {PairOf(s.external[i]) : i \in Threads}) \ {NONE}
GivenFds(s) == (UNION {PairOf(s.packet[i]) : i \in Threads}) \cup ServerFds(s)

DescriptorsInit ==
    /\ setup \in Setups
    /\ open = [fd \in Fds |-> IF fd \in GivenFds(setup) THEN Given(fd) ELSE Closed]
    /\ pc = [i \in Threads |-> "idle"]
    /\ readFd = [i \in Threads |-> setup.external[i][1]]
    /\ writeFd = [i \in Threads |-> setup.external[i][2]]
    /\ socketFd = [i \in Threads |-> NONE]
    /\ told = [i \in Threads |-> FALSE]
    /\ main = <<"running">>

\* close(); a number that is not open is an error (EBADF) and no more.
AfterClose(fd) == IF fd \in Fds THEN [open EXCEPT ![fd] = Closed] ELSE open

Goto(i, from, to) == pc[i] = from /\ pc' = [pc EXCEPT ![i] = to]

-----------------------------------------------------------------------------
(* A translator thread.                                                     *)

\* A system call notices the order to stop and ends the thread.
Stop(i, from) ==
    /\ told[i]
    /\ Goto(i, from, "ended")
    /\ UNCHANGED <<setup, open, fds, told, main>>

StopReading(i) == Stop(i, "idle")
StopUsing(i) == Stop(i, "use")
StopClosingRead(i) == readFd[i] # NONE /\ Stop(i, "closeRead")
StopClosingWrite(i) == writeFd[i] \notin {NONE, readFd[i]} /\ Stop(i, "closeWrite")
StopClosingSocket(i) == Stop(i, "closeSocket")

\* _ensure_fds_are_open()
FdsAreOpen(i) == readFd[i] # NONE /\ writeFd[i] # NONE

Lookup(i) ==
    /\ Goto(i, "idle", IF FdsAreOpen(i) THEN "use" ELSE "closeRead")
    /\ UNCHANGED <<setup, open, fds, told, main>>

\* A message is written to or read from the server.
Succeed(i) ==
    /\ Goto(i, "use", "idle")
    /\ open[readFd[i]] # Closed /\ open[writeFd[i]] # Closed
    /\ UNCHANGED <<setup, open, fds, told, main>>

Fail(i) ==
    /\ Goto(i, "use", "closeRead")
    /\ UNCHANGED <<setup, open, fds, told, main>>

\* _close_fds_if_necessary()
CloseRead(i) ==
    /\ readFd[i] # NONE => ~told[i]
    /\ Goto(i, "closeRead", "closeWrite")
    /\ open' = AfterClose(readFd[i])
    /\ UNCHANGED <<setup, fds, told, main>>

CloseWrite(i) ==
    /\ writeFd[i] \notin {NONE, readFd[i]} => ~told[i]
    /\ Goto(i, "closeWrite", "forget")
    /\ open' = IF writeFd[i] # readFd[i] THEN AfterClose(writeFd[i]) ELSE open
    /\ UNCHANGED <<setup, fds, told, main>>

\* Variation: what has been closed is not forgotten.
WithoutFdKept(f, i) == f

\* The end of a connection; a lookup that was about to begin goes on, one
\* that failed is over.
WithoutFd(f, i) == [f EXCEPT ![i] = NONE]

Forget(i) ==
    /\ pc[i] = "forget"
    /\ readFd' = WithoutFd(readFd, i)
    /\ writeFd' = WithoutFd(writeFd, i)
    /\ pc' = [pc EXCEPT ![i] = IF FdsAreOpen(i) THEN "idle" ELSE "open"]
    /\ UNCHANGED <<setup, open, socketFd, told, main>>

\* Inherited descriptors cannot be replaced: log__thread_crash().
NoMoreFds(i) ==
    /\ setup.inherited
    /\ Goto(i, "open", "crashed")
    /\ UNCHANGED <<setup, open, fds, told, main>>

\* _open_socket(): the kernel gives the lowest number that is free.
Lowest(free) == CHOOSE fd \in free : \A other \in free : fd <= other
Free == {fd \in Fds : open[fd] = Closed}

Socket(i) ==
    /\ ~setup.inherited
    /\ Goto(i, "open", "connect")
    /\ Free # {}
    /\ socketFd' = [socketFd EXCEPT ![i] = Lowest(Free)]
    /\ open' = [open EXCEPT ![Lowest(Free)] = SocketOf(i)]
    /\ UNCHANGED <<setup, readFd, writeFd, told, main>>

\* The lookup fails, for now.
AfterSocketFails == "idle"

SocketFails(i) ==
    /\ ~setup.inherited
    /\ Goto(i, "open", AfterSocketFails)
    /\ UNCHANGED <<setup, open, fds, told, main>>

\* xlat_interrupt__connect() closes the socket before it ends the thread.
StopConnecting(i) ==
    /\ told[i]
    /\ Goto(i, "connect", "ended")
    /\ open' = AfterClose(socketFd[i])
    /\ socketFd' = [socketFd EXCEPT ![i] = NONE]
    /\ UNCHANGED <<setup, readFd, writeFd, told, main>>

Connect(i) ==
    /\ Goto(i, "connect", "stored")
    /\ UNCHANGED <<setup, open, fds, told, main>>

\* Variation: a socket without a connection is taken not to need closing.
AfterConnectFailsOpen == "forgotten"

\* The socket is closed; so it is if its timeouts cannot be set.
AfterConnectFails == "closeSocket"

ConnectFails(i) ==
    /\ Goto(i, "connect", AfterConnectFails)
    /\ UNCHANGED <<setup, open, fds, told, main>>

CloseSocket(i) ==
    /\ ~told[i]
    /\ Goto(i, "closeSocket", "forgotten")
    /\ open' = AfterClose(socketFd[i])
    /\ UNCHANGED <<setup, fds, told, main>>

\* Another address of the server is tried, or the lookup fails.
TryNext(i) ==
    /\ pc[i] = "forgotten"
    /\ pc' \in {[pc EXCEPT ![i] = next] : next \in {"open", "idle"}}
    /\ socketFd' = [socketFd EXCEPT ![i] = NONE]
    /\ UNCHANGED <<setup, open, readFd, writeFd, told, main>>

Store(i) ==
    /\ Goto(i, "stored", "use")
    /\ readFd' = [readFd EXCEPT ![i] = socketFd[i]]
    /\ writeFd' = [writeFd EXCEPT ![i] = socketFd[i]]
    /\ socketFd' = [socketFd EXCEPT ![i] = NONE]
    /\ UNCHANGED <<setup, open, told, main>>

-----------------------------------------------------------------------------
(* The main thread.                                                         *)

\* A translator thread that ends on its own account ends the process.
Unexpected ==
    /\ main = <<"running">>
    /\ \E i \in Threads : pc[i] = "crashed"
    /\ main' = <<"crashed">>
    /\ UNCHANGED <<setup, open, pc, fds, told>>

Terminate ==
    /\ main = <<"running">>
    /\ main' = <<"stopping">>
    /\ UNCHANGED <<setup, open, pc, fds, told>>

Tell(i) ==
    /\ main = <<"stopping">>
    /\ ~told[i]
    /\ told' = [told EXCEPT ![i] = TRUE]
    /\ UNCHANGED <<setup, open, pc, fds, main>>

\* All threads are joined.
Joined ==
    /\ main = <<"stopping">>
    /\ \A i \in Threads : pc[i] \in {"ended", "crashed"}
    /\ main' = <<"freeing", 1, 1>>
    /\ UNCHANGED <<setup, open, pc, fds, told>>

\* Variation: the server's descriptor for reading is taken to be the other one.
ToCloseOne(i) == <<writeFd[i], writeFd[i], setup.packet[i][1], setup.packet[i][2]>>

\* _free_thread_contexts(): what is closed for a thread, in order.
ToClose(i) == <<readFd[i], writeFd[i], setup.packet[i][1], setup.packet[i][2]>>

\* init_io__close_fd() with ignore_ebadf: a number that is not open is no error.
IsIgnored(fd) == fd \notin Fds \/ open[fd] = Closed

AfterFreeing(at) ==
    IF at[3] < 4 THEN <<"freeing", at[2], at[3] + 1>>
    ELSE IF at[2] < N THEN <<"freeing", at[2] + 1, 1>>
    ELSE <<"done">>

FreeDescriptor ==
    /\ main[1] = "freeing"
    /\ LET fd == ToClose(main[2])[main[3]] IN
         /\ open' = AfterClose(fd)
         /\ main' = IF open' # open \/ IsIgnored(fd) THEN AfterFreeing(main) ELSE <<"crashed">>
    /\ UNCHANGED <<setup, pc, fds, told>>

Thread(i) ==
    \/ StopReading(i) \/ StopUsing(i) \/ StopClosingRead(i) \/ StopClosingWrite(i)
    \/ StopClosingSocket(i) \/ StopConnecting(i)
    \/ Lookup(i) \/ Succeed(i) \/ Fail(i) \/ CloseRead(i) \/ CloseWrite(i) \/ Forget(i)
    \/ NoMoreFds(i) \/ Socket(i) \/ SocketFails(i) \/ Connect(i) \/ ConnectFails(i)
    \/ CloseSocket(i) \/ TryNext(i) \/ Store(i)

DescriptorsNext ==
    \/ main # <<"crashed">> /\ \E i \in Threads : Thread(i)
    \/ \E i \in Threads : Tell(i)
    \/ Unexpected \/ Terminate \/ Joined \/ FreeDescriptor

DescriptorsSpec == DescriptorsInit /\ [][DescriptorsNext]_descriptorsVars
-----------------------------------------------------------------------------
\* Every variable keeps its type; descriptors are used only when there are any.
DescriptorsTypeOK ==
    /\ setup \in Setups
    /\ open \in [Fds -> {Closed} \cup {Given(fd) : fd \in Fds} \cup {SocketOf(i) : i \in Threads}]
    /\ pc \in [Threads -> {"idle", "use", "closeRead", "closeWrite", "forget", "open", "connect",
                            "closeSocket", "forgotten", "stored", "ended", "crashed"}]
    /\ {readFd, writeFd, socketFd} \subseteq [Threads -> Fds \cup {NONE}]
    /\ \A i \in Threads : pc[i] = "use" => readFd[i] # NONE /\ writeFd[i] # NONE
    /\ told \in [Threads -> BOOLEAN]
    /\ main \in ({"freeing"} \X Threads \X (1..4))
               \cup {<<"running">>, <<"stopping">>, <<"done">>, <<"crashed">>}

IsAlive(i) == pc[i] \notin {"ended", "crashed"}

\* What thread i's number fd for the server may stand for.  Two threads may
\* have inherited the same descriptor, which one of them has closed.
IsOwn(i, fd) ==
    IF setup.inherited THEN open[fd] \in {Given(fd), Closed} ELSE open[fd] = SocketOf(i)

\* While a thread runs, it reads from, writes to and closes nothing but its
\* own descriptors, although other threads get the numbers it has closed.
\* (Nothing keeps the user from passing one descriptor for packets and for the
\* server.)
UsesItsOwn ==
    \A i \in Threads : IsAlive(i) =>
        /\ \A fd \in PairOf(setup.packet[i]) \ ServerFds(setup) : open[fd] = Given(fd)
        /\ pc[i] \in {"use", "idle"} =>
             \A fd \in {readFd[i], writeFd[i]} \ {NONE} : IsOwn(i, fd)
        /\ pc[i] = "closeRead" /\ readFd[i] # NONE => IsOwn(i, readFd[i])
        /\ pc[i] = "closeWrite" /\ writeFd[i] \notin {NONE, readFd[i]} => IsOwn(i, writeFd[i])
        /\ pc[i] \in {"connect", "closeSocket", "stored"} => open[socketFd[i]] = SocketOf(i)

\* However often the connection fails, a running thread has no socket open
\* but the one it knows of: the process does not run out of descriptors.
NothingLeaks ==
    \A i \in Threads, fd \in Fds :
        IsAlive(i) /\ open[fd] = SocketOf(i) => fd \in {readFd[i], writeFd[i], socketFd[i]}

\* Closing everything at the end does not take the process down, although
\* threads share descriptors, have lost theirs or were stopped between
\* closing and forgetting one; only a thread that crashed does.  And it closes
\* everything, but for a socket whose thread was stopped when it was about to
\* close it after connecting had failed.
EndsInPeace ==
    /\ main = <<"crashed">> => \E i \in Threads : pc[i] = "crashed"
    /\ main = <<"done">> =>
         \A fd \in Fds : open[fd] # Closed =>
             \E i \in Threads : open[fd] = SocketOf(i) /\ socketFd[i] = fd
=============================================================================
