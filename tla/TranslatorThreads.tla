--------------------------- MODULE TranslatorThreads ---------------------------
(****************************************************************************)
(* The life of a Tundra process in the `translate' mode of operation: the   *)
(* main thread, which starts the translator threads, watches them, asks     *)
(* them to stop and joins them (init.c, opmode_translate.c), and the        *)
(* translator threads, which block in interruptible system calls (xlat.c,   *)
(* xlat_io.c, xlat_interrupt.c).  The two sides meet in signals             *)
(* (signals.c), in pthread_tryjoin_np / pthread_kill and in the mutex that  *)
(* every log message takes (log.c).                                         *)
(*                                                                          *)
(* One packet is one or more writev() calls after one read(); what is       *)
(* written is the subject of other modules.                                 *)
(****************************************************************************)
EXTENDS Naturals

CONSTANTS
    N,               \* program.translator_threads
    MaxForeign,      \* bound: signals other processes aim at a translator thread
    Autodiscover,    \* is the prefix looked up in DNS (RFC 7050) at startup?
    KillMayMiss,     \* does pthread_kill() fail for a terminated, unjoined thread (older glibc)?
    FaultsAllowed    \* may system calls fail?

ASSUME ThreadsAssumption ==
    /\ N \in Nat \ {0}
    /\ MaxForeign \in Nat
    /\ Autodiscover \in BOOLEAN
    /\ KillMayMiss \in BOOLEAN
    /\ FaultsAllowed \in BOOLEAN

Threads == 1..N

MAIN == 0       \* thread ID 0 is the main thread's
NOBODY == N + 1

VARIABLES
    main,       \* where the main thread is
    next,       \* the loop counter i of the main thread's loops
    running,    \* are_there_running_threads
    mainFlag,   \* the main thread's _term_signal_caught_in_thread
    worker,     \* where each translator thread is
    call,       \* the system call a translator thread is making
    flag,       \* the translator threads' _term_signal_caught_in_thread
    pending,    \* the signal queued for a translator thread and not yet handled
    joined,     \* thread_ctx.joined
    reaped,     \* threads that pthread_tryjoin_np() has joined
    freed,      \* thread_ctx: is the buffer freed, are the descriptors closed?
    crashed,    \* threads that went through log__thread_crash()
    logLock,    \* who holds _log_output_mutex
    foreign,    \* signals that other processes may still send to threads
    faulty      \* has a system call failed so far?

mainVars   == <<main, next, running>>
workerVars == <<worker, call, crashed>>
signalVars == <<mainFlag, flag, pending, foreign>>
joinVars   == <<joined, reaped, freed>>
vars == <<mainVars, workerVars, signalVars, joinVars, logLock, faulty>>

(* The places of the main thread and of a translator thread, as the code     *)
(* reaches them.                                                            *)
Starting == {"boot", "resolve", "retry", "contexts", "daemonize", "start"}
Monitoring == {"info", "monitor", "scan", "nap"}
Terminating == {"term", "kill", "doze"}
Finishing == {"free", "goodbye", "finalize"}
Ended == {"exited", "died"}     \* exit code 0, exit code TUNDRA__EXIT_CRASH

MainPlaces == Starting \cup Monitoring \cup Terminating \cup Finishing
              \cup {"crash", "exit"} \cup Ended
WorkerPlaces == {"unborn", "loop", "guard", "enter", "blocked", "translate",
                 "crash", "logging", "ended"}

Over == main \in Ended

\* Every variable keeps its type.
TypeOK ==
    /\ main \in MainPlaces
    /\ next \in 1..(N + 1)
    /\ running \in BOOLEAN
    /\ mainFlag \in BOOLEAN
    /\ worker \in [Threads -> WorkerPlaces]
    /\ call \in [Threads -> {"read", "writev"}]
    /\ flag \in [Threads -> BOOLEAN]
    /\ pending \in [Threads -> {"none", "own", "foreign"}]
    /\ joined \in [Threads -> BOOLEAN]
    /\ reaped \in [Threads -> BOOLEAN]
    /\ freed \in [Threads -> BOOLEAN]
    /\ crashed \in [Threads -> BOOLEAN]
    /\ logLock \in Threads \cup {NOBODY}
    /\ foreign \in 0..MaxForeign
    /\ faulty \in BOOLEAN

Init ==
    /\ main = "boot"
    /\ next = 1
    /\ running = FALSE
    /\ mainFlag = FALSE
    /\ worker = [i \in Threads |-> "unborn"]
    /\ call = [i \in Threads |-> "read"]
    /\ flag = [i \in Threads |-> FALSE]
    /\ pending = [i \in Threads |-> "none"]
    /\ joined = [i \in Threads |-> FALSE]
    /\ reaped = [i \in Threads |-> FALSE]
    /\ freed = [i \in Threads |-> FALSE]
    /\ crashed = [i \in Threads |-> FALSE]
    /\ logLock = NOBODY
    /\ foreign = MaxForeign
    /\ faulty = FALSE

\* _print_log_message() by the main thread: it waits for the mutex, and no
\* step of the main thread separates taking it from giving it back.
MainPrints == logLock = NOBODY

-----------------------------------------------------------------------------
(* The main thread: startup.                                                *)

Goto(place) == main' = place /\ UNCHANGED <<next, running>>

GotoLoop(place) == main' = place /\ next' = 1 /\ UNCHANGED running

\* log__initialize(), signals__initialize(), the configuration; the signal
\* handlers are in place before the configuration is read.
InitializeProgram ==
    /\ main = "boot"
    /\ Goto(IF Autodiscover THEN "resolve" ELSE "contexts")
    /\ UNCHANGED <<workerVars, signalVars, joinVars, logLock, faulty>>

\* getaddrinfo() returned an address of ipv4only.arpa.: the prefix is known.
PrefixFound ==
    /\ main = "resolve"
    /\ MainPrints
    /\ Goto("contexts")
    /\ UNCHANGED <<workerVars, signalVars, joinVars, logLock, faulty>>

\* getaddrinfo() failed, or none of its results carries a target address.
PrefixNotFound ==
    /\ main = "resolve"
    /\ Goto("retry")
    /\ UNCHANGED <<workerVars, signalVars, joinVars, logLock, faulty>>

\* sleep(_RETRY_INTERVAL_SECONDS) ended, or a signal cut it short.
RetryDiscovery ==
    /\ main = "retry"
    /\ Goto("resolve")
    /\ UNCHANGED <<workerVars, signalVars, joinVars, logLock, faulty>>

InitializeThreadContexts ==
    /\ main = "contexts"
    /\ Goto("daemonize")
    /\ UNCHANGED <<workerVars, signalVars, joinVars, logLock, faulty>>

PartiallyDaemonize ==
    /\ main = "daemonize"
    /\ GotoLoop("start")
    /\ UNCHANGED <<workerVars, signalVars, joinVars, logLock, faulty>>

StartThread ==
    /\ main = "start"
    /\ next <= N
    /\ worker' = [worker EXCEPT ![next] = "loop"]
    /\ next' = next + 1
    /\ UNCHANGED <<main, running, call, crashed, signalVars, joinVars, logLock, faulty>>

ThreadsStarted ==
    /\ main = "start"
    /\ next > N
    /\ Goto("info")
    /\ UNCHANGED <<workerVars, signalVars, joinVars, logLock, faulty>>

\* A step of the startup fails: getrandom() or the TUN device, chdir() or
\* setuid(), pthread_create().  log__crash().
StartupFails ==
    /\ FaultsAllowed
    /\ \/ main \in {"boot", "contexts", "daemonize"}
       \/ main = "start" /\ next <= N
    /\ Goto("crash")
    /\ faulty' = TRUE
    /\ UNCHANGED <<workerVars, signalVars, joinVars, logLock>>

PrintInfo ==
    /\ main = "info"
    /\ MainPrints
    /\ Goto("monitor")
    /\ UNCHANGED <<workerVars, signalVars, joinVars, logLock, faulty>>

-----------------------------------------------------------------------------
(* The main thread: _monitor_threads().                                     *)

MonitorCheck ==
    /\ main = "monitor"
    /\ next' = 1
    /\ running' = FALSE
    /\ main' = IF mainFlag THEN "term" ELSE "scan"
    /\ UNCHANGED <<workerVars, signalVars, joinVars, logLock, faulty>>

\* pthread_tryjoin_np() says EBUSY.
MonitorThread ==
    /\ main = "scan"
    /\ next <= N
    /\ worker[next] # "ended"
    /\ next' = next + 1
    /\ UNCHANGED <<main, running, workerVars, signalVars, joinVars, logLock, faulty>>

\* pthread_tryjoin_np() joins the thread, but thread_ctx.joined is not set:
\* the process is about to exit.
MonitorFindsEnded ==
    /\ main = "scan"
    /\ next <= N
    /\ worker[next] = "ended"
    /\ reaped' = [reaped EXCEPT ![next] = TRUE]
    /\ Goto("crash")
    /\ UNCHANGED <<workerVars, signalVars, joined, freed, logLock, faulty>>

\* Variation: the scan may stop before it has tried the last thread.
MonitorDoneEarly ==
    /\ main = "scan"
    /\ next >= N
    /\ Goto("nap")
    /\ UNCHANGED <<workerVars, signalVars, joinVars, logLock, faulty>>

MonitorDone ==
    /\ main = "scan"
    /\ next > N
    /\ Goto("nap")
    /\ UNCHANGED <<workerVars, signalVars, joinVars, logLock, faulty>>

MonitorWakes ==
    /\ main = "nap"
    /\ Goto("monitor")
    /\ UNCHANGED <<workerVars, signalVars, joinVars, logLock, faulty>>

-----------------------------------------------------------------------------
(* The main thread: _terminate_threads().                                   *)

TermSkip ==
    /\ main = "term"
    /\ next <= N
    /\ joined[next]
    /\ next' = next + 1
    /\ UNCHANGED <<main, running, workerVars, signalVars, joinVars, logLock, faulty>>

\* Variation: thread_ctx.joined is not set.
TermJoinUnmarked ==
    /\ main = "term"
    /\ next <= N
    /\ ~joined[next]
    /\ worker[next] = "ended"
    /\ reaped' = [reaped EXCEPT ![next] = TRUE]
    /\ next' = next + 1
    /\ UNCHANGED <<main, running, workerVars, signalVars, joined, freed, logLock, faulty>>

TermJoin ==
    /\ main = "term"
    /\ next <= N
    /\ ~joined[next]
    /\ worker[next] = "ended"
    /\ reaped' = [reaped EXCEPT ![next] = TRUE]
    /\ joined' = [joined EXCEPT ![next] = TRUE]
    /\ next' = next + 1
    /\ UNCHANGED <<main, running, workerVars, signalVars, freed, logLock, faulty>>

\* EBUSY: the thread may end between this call and pthread_kill().
TermBusy ==
    /\ main = "term"
    /\ next <= N
    /\ ~joined[next]
    /\ worker[next] # "ended"
    /\ running' = TRUE
    /\ main' = "kill"
    /\ UNCHANGED <<next, workerVars, signalVars, joinVars, logLock, faulty>>

\* Variation: a thread whose flag is already set is not signalled again.
PendingAfterOnlyKill(i) ==
    IF pending[i] = "none" /\ worker[i] # "ended" /\ ~flag[i] THEN "own" ELSE pending[i]

\* A signal that is already pending for the thread is not queued twice: the
\* second one is lost.
PendingAfterKill(i) ==
    IF pending[i] = "none" /\ worker[i] # "ended" THEN "own" ELSE pending[i]

\* pthread_kill(SIGTERM).
Kill ==
    /\ main = "kill"
    /\ \/ worker[next] # "ended"
       \/ ~KillMayMiss
    /\ pending' = [pending EXCEPT ![next] = PendingAfterKill(next)]
    /\ main' = "term"
    /\ next' = next + 1
    /\ UNCHANGED <<running, workerVars, mainFlag, flag, foreign, joinVars, logLock, faulty>>

\* pthread_kill() answers ESRCH: log__crash().
KillFails ==
    /\ main = "kill"
    /\ worker[next] = "ended"
    /\ KillMayMiss
    /\ Goto("crash")
    /\ faulty' = TRUE
    /\ UNCHANGED <<workerVars, signalVars, joinVars, logLock>>

\* Variation: one round of signals, and the threads are taken to be gone.
TermOnlyRoundDone ==
    /\ main = "term"
    /\ next > N
    /\ main' = "free"
    /\ next' = 1
    /\ UNCHANGED <<running, workerVars, signalVars, joinVars, logLock, faulty>>

TermRoundDone ==
    /\ main = "term"
    /\ next > N
    /\ main' = IF running THEN "doze" ELSE "free"
    /\ next' = 1
    /\ UNCHANGED <<running, workerVars, signalVars, joinVars, logLock, faulty>>

TermWakes ==
    /\ main = "doze"
    /\ main' = "term"
    /\ next' = 1
    /\ running' = FALSE
    /\ UNCHANGED <<workerVars, signalVars, joinVars, logLock, faulty>>

-----------------------------------------------------------------------------
(* The main thread: the end of the process.                                 *)

\* One iteration of _free_thread_contexts().
FreeContext ==
    /\ main = "free"
    /\ next <= N
    /\ freed' = [freed EXCEPT ![next] = TRUE]
    /\ next' = next + 1
    /\ UNCHANGED <<main, running, workerVars, signalVars, joined, reaped, logLock, faulty>>

ContextsFreed ==
    /\ main = "free"
    /\ next > N
    /\ Goto("goodbye")
    /\ UNCHANGED <<workerVars, signalVars, joinVars, logLock, faulty>>

\* The last log__info().
SayGoodbye ==
    /\ main = "goodbye"
    /\ MainPrints
    /\ Goto("finalize")
    /\ UNCHANGED <<workerVars, signalVars, joinVars, logLock, faulty>>

\* log__finalize() destroys the mutex and main() returns TUNDRA__EXIT_SUCCESS.
FinalizeProgram ==
    /\ main = "finalize"
    /\ Goto("exited")
    /\ UNCHANGED <<workerVars, signalVars, joinVars, logLock, faulty>>

\* log__crash() prints its message and gives the mutex back.
Crash ==
    /\ main = "crash"
    /\ MainPrints
    /\ Goto("exit")
    /\ UNCHANGED <<workerVars, signalVars, joinVars, logLock, faulty>>

\* exit(TUNDRA__EXIT_CRASH): another thread may hold the mutex by now.
Exit ==
    /\ main = "exit"
    /\ Goto("died")
    /\ UNCHANGED <<workerVars, signalVars, joinVars, logLock, faulty>>

-----------------------------------------------------------------------------
(* A translator thread.  Nothing of it runs once the process is over.       *)

\* The condition of the while loop of xlat__run_thread().
LoopCheck(i) ==
    /\ ~Over
    /\ worker[i] = "loop"
    /\ worker' = [worker EXCEPT ![i] = IF flag[i] THEN "ended" ELSE "guard"]
    /\ call' = [call EXCEPT ![i] = "read"]
    /\ UNCHANGED <<crashed, mainVars, signalVars, joinVars, logLock, faulty>>

\* The check at the top of every xlat_interrupt__ loop; pthread_exit() if
\* the thread has been told to stop.
Guard(i) ==
    /\ ~Over
    /\ worker[i] = "guard"
    /\ worker' = [worker EXCEPT ![i] = IF flag[i] THEN "ended" ELSE "enter"]
    /\ UNCHANGED <<call, crashed, mainVars, signalVars, joinVars, logLock, faulty>>

\* The thread enters the system call; a signal that was handled since the
\* check no longer interrupts it.
EnterCall(i) ==
    /\ ~Over
    /\ worker[i] = "enter"
    /\ worker' = [worker EXCEPT ![i] = "blocked"]
    /\ UNCHANGED <<call, crashed, mainVars, signalVars, joinVars, logLock, faulty>>

\* A packet has arrived (read), or all of the packet has been written.
CallSucceeds(i) ==
    /\ ~Over
    /\ worker[i] = "blocked"
    /\ worker' = [worker EXCEPT ![i] = "translate"]
    /\ UNCHANGED <<call, crashed, mainVars, signalVars, joinVars, logLock, faulty>>

\* An error, an end of file or a short write: log__thread_crash().
CallFails(i) ==
    /\ FaultsAllowed
    /\ ~Over
    /\ worker[i] = "blocked"
    /\ worker' = [worker EXCEPT ![i] = "crash"]
    /\ faulty' = TRUE
    /\ UNCHANGED <<call, crashed, mainVars, signalVars, joinVars, logLock>>

\* The translation sends a (or another) packet.
SendPacket(i) ==
    /\ ~Over
    /\ worker[i] = "translate"
    /\ worker' = [worker EXCEPT ![i] = "guard"]
    /\ call' = [call EXCEPT ![i] = "writev"]
    /\ UNCHANGED <<crashed, mainVars, signalVars, joinVars, logLock, faulty>>

\* The packet is translated, or dropped.
PacketDone(i) ==
    /\ ~Over
    /\ worker[i] = "translate"
    /\ worker' = [worker EXCEPT ![i] = "loop"]
    /\ UNCHANGED <<call, crashed, mainVars, signalVars, joinVars, logLock, faulty>>

CrashLocksLog(i) ==
    /\ ~Over
    /\ worker[i] = "crash"
    /\ logLock = NOBODY
    /\ logLock' = i
    /\ worker' = [worker EXCEPT ![i] = "logging"]
    /\ UNCHANGED <<call, crashed, mainVars, signalVars, joinVars, faulty>>

\* Variation: pthread_exit() with the mutex held.
CrashEndsLocked(i) ==
    /\ ~Over
    /\ worker[i] = "logging"
    /\ worker' = [worker EXCEPT ![i] = "ended"]
    /\ crashed' = [crashed EXCEPT ![i] = TRUE]
    /\ UNCHANGED <<call, logLock, mainVars, signalVars, joinVars, faulty>>

\* The message is printed, the mutex given back; pthread_exit().
CrashEnds(i) ==
    /\ ~Over
    /\ worker[i] = "logging"
    /\ logLock' = NOBODY
    /\ worker' = [worker EXCEPT ![i] = "ended"]
    /\ crashed' = [crashed EXCEPT ![i] = TRUE]
    /\ UNCHANGED <<call, mainVars, signalVars, joinVars, faulty>>

-----------------------------------------------------------------------------
(* Signals.                                                                 *)

\* _term_signal_handler() in a translator thread: only a signal from within
\* the process counts.
CaughtBy(i) == flag[i] \/ pending[i] = "own"

\* Variation: EINTR is returned to the caller as any other error.
InterruptIsError(place) == IF place = "blocked" THEN "crash" ELSE place

\* A blocked system call fails with EINTR, and the xlat_interrupt__ loop goes
\* back to its check.
AfterInterrupt(place) == IF place = "blocked" THEN "guard" ELSE place

\* The handler runs in the thread, wherever it is.
HandleSignal(i) ==
    /\ ~Over
    /\ worker[i] \notin {"unborn", "ended"}
    /\ pending[i] # "none"
    /\ flag' = [flag EXCEPT ![i] = CaughtBy(i)]
    /\ pending' = [pending EXCEPT ![i] = "none"]
    /\ worker' = [worker EXCEPT ![i] = AfterInterrupt(@)]
    /\ UNCHANGED <<mainFlag, foreign, call, crashed, mainVars, joinVars, logLock, faulty>>

\* A signal sent to the process, handled by the main thread.
SignalProcess ==
    /\ ~Over
    /\ main # "boot"
    /\ ~mainFlag
    /\ mainFlag' = TRUE
    /\ UNCHANGED <<flag, pending, foreign, mainVars, workerVars, joinVars, logLock, faulty>>

\* A signal another process aims at one translator thread.
SignalThread(i) ==
    /\ ~Over
    /\ foreign > 0
    /\ worker[i] \notin {"unborn", "ended"}
    /\ pending[i] = "none"
    /\ pending' = [pending EXCEPT ![i] = "foreign"]
    /\ foreign' = foreign - 1
    /\ UNCHANGED <<mainFlag, flag, mainVars, workerVars, joinVars, logLock, faulty>>

-----------------------------------------------------------------------------

\* What the main thread does once its environment lets it.
MainStep ==
    \/ InitializeProgram \/ RetryDiscovery
    \/ InitializeThreadContexts \/ PartiallyDaemonize
    \/ StartThread \/ ThreadsStarted \/ PrintInfo
    \/ MonitorCheck \/ MonitorThread \/ MonitorFindsEnded \/ MonitorDone \/ MonitorWakes
    \/ TermSkip \/ TermJoin \/ TermBusy \/ Kill \/ KillFails \/ TermRoundDone \/ TermWakes
    \/ FreeContext \/ ContextsFreed \/ SayGoodbye \/ FinalizeProgram
    \/ Crash \/ Exit

\* What DNS answers.
Discovery == PrefixFound \/ PrefixNotFound

\* What a translator thread does without waiting for packets.
WorkerStep(i) ==
    \/ LoopCheck(i) \/ Guard(i) \/ EnterCall(i) \/ PacketDone(i)
    \/ CrashLocksLog(i) \/ CrashEnds(i)

\* What the network and the kernel decide.
WorkerEnv(i) ==
    \/ CallSucceeds(i) \/ CallFails(i) \/ SendPacket(i) \/ SignalThread(i)

Next ==
    \/ MainStep
    \/ Discovery
    \/ StartupFails
    \/ SignalProcess
    \/ \E i \in Threads : WorkerStep(i) \/ WorkerEnv(i) \/ HandleSignal(i)

Spec == Init /\ [][Next]_vars

\* The scheduler runs every thread, pending signals are delivered, and DNS
\* answers one way or the other.  No packet need ever arrive and no write need
\* ever finish.  The log mutex needs no strong fairness: every thread takes it
\* at most once before it ends.
Fairness ==
    /\ WF_vars(MainStep)
    /\ WF_vars(Discovery)
    /\ \A i \in Threads :
         /\ WF_vars(WorkerStep(i))
         /\ WF_vars(HandleSignal(i))

FairSpec == Spec /\ Fairness

\* As FairSpec, and DNS sooner or later gives the prefix to those who keep asking.
ResolvedSpec == FairSpec /\ SF_vars(PrefixFound)

-----------------------------------------------------------------------------
(* Safety.                                                                  *)

\* As soon as _free_thread_contexts() has freed one context, every translator
\* thread has ended and been joined: none of them can still use its buffer,
\* or a descriptor it shares with the freed context (a single-queue TUN).
NoUseAfterFree ==
    (\E i \in Threads : freed[i]) =>
        \A j \in Threads : worker[j] = "ended" /\ reaped[j]

\* pthread_tryjoin_np() is never called again for a thread it has joined
\* (that is undefined behaviour), whatever rounds _terminate_threads() needs.
NoSecondJoin ==
    main \in {"scan", "term"} /\ next <= N /\ reaped[next] => joined[next]

\* A translator thread takes only the main thread's signal as the order to
\* stop, and the main thread sends it only after it has itself been told to
\* stop: signals other processes send to a thread change nothing.
OnlyMainStopsThreads ==
    \A i \in Threads : flag[i] => mainFlag /\ main \notin Starting \cup Monitoring

\* Unless a system call has failed, the process never exits with the crash
\* code: no interleaving of signals, EINTR, joins and terminations is taken
\* for the unexpected end of a translator thread.
NoSpuriousCrash == main = "died" => faulty

\* Who has the mutex is printing and will give it back: no thread ends with
\* it, so that nobody waits for it in vain, and each has its own turn.  Once
\* the threads have been joined nobody holds the mutex or waits for it, so
\* that log__finalize() destroys one that is not in use.  (A process that
\* crashes may end while another crashing thread is printing.)
MutexComesBack ==
    /\ \A i \in Threads : worker[i] = "logging" <=> logLock = i
    /\ main \in Finishing \cup {"exited"} =>
         logLock = NOBODY /\ \A i \in Threads : worker[i] # "crash"

-----------------------------------------------------------------------------
(* The inductive invariant from which the safety properties follow.         *)

\* What _terminate_threads() knows about the threads before `next'.
JoinProgress ==
    /\ main \in Starting \cup Monitoring => \A i \in Threads : ~joined[i]
    /\ \A i \in Threads : joined[i] => worker[i] = "ended" /\ reaped[i]
    /\ main \notin {"crash", "exit", "died"} => \A i \in Threads : reaped[i] => joined[i]
    /\ main = "kill" => running /\ next <= N
    /\ main = "term" /\ ~running => \A i \in Threads : i < next => joined[i]
    /\ main \in Finishing \cup {"exited"} => \A i \in Threads : joined[i]
    /\ \A i \in Threads : freed[i] => main \in Finishing \cup {"exited"}

\* Where the order to stop can be.
StopOrders ==
    /\ main \in Terminating \cup Finishing => mainFlag
    /\ \A i \in Threads : flag[i] \/ pending[i] = "own" =>
           mainFlag /\ main \notin Starting \cup Monitoring

\* Nobody ends or crashes without an order to stop or a failed system call.
EndsExplained ==
    /\ main \in {"crash", "exit", "died"} => faulty
    /\ \A i \in Threads :
         /\ worker[i] \in {"crash", "logging"} => faulty
         /\ worker[i] = "ended" => flag[i] \/ faulty

SafetyInv == TypeOK /\ JoinProgress /\ StopOrders /\ EndsExplained

-----------------------------------------------------------------------------
(* Liveness.                                                                *)

\* "To terminate it, send SIGTERM, SIGINT or SIGHUP to the process": once the
\* main thread has caught the signal, the process ends, even if the signal
\* for a translator thread falls between its check and its system call.
SignalledStops == mainFlag ~> Over

\* A translator thread that crashes takes the process down with it.
CrashedThreadEndsProcess == (\E i \in Threads : crashed[i]) ~> Over
=============================================================================
