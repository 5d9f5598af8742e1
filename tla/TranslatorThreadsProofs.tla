------------------------ MODULE TranslatorThreadsProofs ------------------------
(****************************************************************************)
(* For every number of translator threads: no context is freed while a      *)
(* thread may use it, no thread is joined twice, only the main thread stops *)
(* translator threads, and the process never crashes without a reason.      *)
(* The four follow from SafetyInv, which every step preserves.              *)
(****************************************************************************)
EXTENDS TranslatorThreads, TLAPS

\* The places in full, where a proof must tell them apart.
USE DEF Starting, Monitoring, Terminating, Finishing, Ended
USE DEF mainVars, workerVars, signalVars, joinVars, Goto, GotoLoop

\* Every step keeps the types.
LEMMA TypeStep ==
  ASSUME TypeOK, JoinProgress, [Next]_vars
  PROVE  TypeOK'
<1> USE ThreadsAssumption DEF TypeOK, MainPlaces, WorkerPlaces, NOBODY
<1>1. CASE InitializeProgram
  BY <1>1 DEF InitializeProgram
<1>2. CASE PrefixFound
  BY <1>2 DEF PrefixFound
<1>3. CASE PrefixNotFound
  BY <1>3 DEF PrefixNotFound
<1>4. CASE RetryDiscovery
  BY <1>4 DEF RetryDiscovery
<1>5. CASE InitializeThreadContexts
  BY <1>5 DEF InitializeThreadContexts
<1>6. CASE PartiallyDaemonize
  BY <1>6 DEF PartiallyDaemonize
<1>7. CASE StartThread
  <2>1. next' \in 1..(N + 1)
    BY <1>7 DEF StartThread, Threads
  <2>2. worker' \in [Threads -> WorkerPlaces]
    BY <1>7 DEF StartThread, Threads
  <2>3. QED
    BY <1>7, <2>1, <2>2 DEF StartThread
<1>8. CASE ThreadsStarted
  BY <1>8 DEF ThreadsStarted
<1>9. CASE StartupFails
  BY <1>9 DEF StartupFails
<1>10. CASE PrintInfo
  BY <1>10 DEF PrintInfo
<1>11. CASE MonitorCheck
  <2>1. main' \in MainPlaces
    BY <1>11 DEF MonitorCheck
  <2>2. running' \in BOOLEAN
    BY <1>11 DEF MonitorCheck
  <2>3. next' \in 1..(N + 1)
    BY <1>11 DEF MonitorCheck
  <2>4. QED
    BY <1>11, <2>1, <2>2, <2>3 DEF MonitorCheck
<1>12. CASE MonitorThread
  BY <1>12 DEF MonitorThread
<1>13. CASE MonitorFindsEnded
  BY <1>13 DEF MonitorFindsEnded
<1>14. CASE MonitorDone
  BY <1>14 DEF MonitorDone
<1>15. CASE MonitorWakes
  BY <1>15 DEF MonitorWakes
<1>16. CASE TermSkip
  BY <1>16 DEF TermSkip
<1>17. CASE TermJoin
  <2>1. next' \in 1..(N + 1)
    BY <1>17 DEF TermJoin, Threads
  <2>2. joined' \in [Threads -> BOOLEAN] /\ reaped' \in [Threads -> BOOLEAN]
    BY <1>17 DEF TermJoin
  <2>3. QED
    BY <1>17, <2>1, <2>2 DEF TermJoin
<1>18. CASE TermBusy
  BY <1>18 DEF TermBusy
<1>19. CASE Kill
  <2>1. next' \in 1..(N + 1)
    BY <1>19 DEF Kill, JoinProgress, Threads
  <2>2. pending' \in [Threads -> {"none", "own", "foreign"}]
    BY <1>19 DEF Kill, PendingAfterKill
  <2>3. QED
    BY <1>19, <2>1, <2>2 DEF Kill
<1>20. CASE KillFails
  BY <1>20 DEF KillFails
<1>21. CASE TermRoundDone
  BY <1>21 DEF TermRoundDone
<1>22. CASE TermWakes
  <2>1. running' \in BOOLEAN
    BY <1>22 DEF TermWakes
  <2>2. next' \in 1..(N + 1)
    BY <1>22 DEF TermWakes
  <2>3. QED
    BY <1>22, <2>1, <2>2 DEF TermWakes
<1>23. CASE FreeContext
  <2>1. next' \in 1..(N + 1)
    BY <1>23 DEF FreeContext, Threads
  <2>2. freed' \in [Threads -> BOOLEAN]
    BY <1>23 DEF FreeContext
  <2>3. QED
    BY <1>23, <2>1, <2>2 DEF FreeContext
<1>24. CASE ContextsFreed
  BY <1>24 DEF ContextsFreed
<1>25. CASE SayGoodbye \/ FinalizeProgram
  BY <1>25 DEF SayGoodbye, FinalizeProgram
<1>26. CASE Crash \/ Exit
  BY <1>26 DEF Crash, Exit
<1>27. CASE SignalProcess
  BY <1>27 DEF SignalProcess
<1>28. ASSUME NEW i \in Threads, LoopCheck(i) PROVE TypeOK'
  BY <1>28 DEF LoopCheck
<1>29. ASSUME NEW i \in Threads, Guard(i) PROVE TypeOK'
  BY <1>29 DEF Guard
<1>30. ASSUME NEW i \in Threads, EnterCall(i) PROVE TypeOK'
  BY <1>30 DEF EnterCall
<1>31. ASSUME NEW i \in Threads, CallSucceeds(i) PROVE TypeOK'
  BY <1>31 DEF CallSucceeds
<1>32. ASSUME NEW i \in Threads, CallFails(i) PROVE TypeOK'
  BY <1>32 DEF CallFails
<1>33. ASSUME NEW i \in Threads, SendPacket(i) PROVE TypeOK'
  BY <1>33 DEF SendPacket
<1>34. ASSUME NEW i \in Threads, PacketDone(i) PROVE TypeOK'
  BY <1>34 DEF PacketDone
<1>35. ASSUME NEW i \in Threads, CrashLocksLog(i) PROVE TypeOK'
  BY <1>35 DEF CrashLocksLog
<1>36. ASSUME NEW i \in Threads, CrashEnds(i) PROVE TypeOK'
  BY <1>36 DEF CrashEnds
<1>37. ASSUME NEW i \in Threads, HandleSignal(i) PROVE TypeOK'
  BY <1>37 DEF HandleSignal, CaughtBy, AfterInterrupt
<1>38. ASSUME NEW i \in Threads, SignalThread(i) PROVE TypeOK'
  BY <1>38 DEF SignalThread
<1>39. CASE UNCHANGED vars
  BY <1>39 DEF vars
<1>40. QED
  BY <1>1, <1>2, <1>3, <1>4, <1>5, <1>6, <1>7, <1>8, <1>9, <1>10, <1>11, <1>12, <1>13, <1>14, <1>15, <1>16, <1>17, <1>18, <1>19, <1>20, <1>21, <1>22, <1>23, <1>24, <1>25, <1>26, <1>27, <1>28, <1>29, <1>30, <1>31, <1>32, <1>33, <1>34, <1>35, <1>36, <1>37, <1>38, <1>39
  DEF Next, MainStep, Discovery, WorkerStep, WorkerEnv

\* Every step keeps what the main thread knows about joined threads.
LEMMA JoinStep ==
  ASSUME TypeOK, JoinProgress, [Next]_vars
  PROVE  JoinProgress'
<1> USE ThreadsAssumption DEF TypeOK, JoinProgress, Threads
<1>1. CASE InitializeProgram
  BY <1>1 DEF InitializeProgram
<1>2. CASE PrefixFound
  BY <1>2 DEF PrefixFound
<1>3. CASE PrefixNotFound
  BY <1>3 DEF PrefixNotFound
<1>4. CASE RetryDiscovery
  BY <1>4 DEF RetryDiscovery
<1>5. CASE InitializeThreadContexts
  BY <1>5 DEF InitializeThreadContexts
<1>6. CASE PartiallyDaemonize
  BY <1>6 DEF PartiallyDaemonize
<1>7. CASE StartThread
  BY <1>7 DEF StartThread
<1>8. CASE ThreadsStarted
  BY <1>8 DEF ThreadsStarted
<1>9. CASE StartupFails
  BY <1>9 DEF StartupFails
<1>10. CASE PrintInfo
  BY <1>10 DEF PrintInfo
<1>11. CASE MonitorCheck
  BY <1>11 DEF MonitorCheck
<1>12. CASE MonitorThread
  BY <1>12 DEF MonitorThread
<1>13. CASE MonitorFindsEnded
  BY <1>13 DEF MonitorFindsEnded
<1>14. CASE MonitorDone
  BY <1>14 DEF MonitorDone
<1>15. CASE MonitorWakes
  BY <1>15 DEF MonitorWakes
<1>16. CASE TermSkip
  BY <1>16 DEF TermSkip
<1>17. CASE TermJoin
  BY <1>17 DEF TermJoin
<1>18. CASE TermBusy
  BY <1>18 DEF TermBusy
<1>19. CASE Kill
  BY <1>19 DEF Kill, PendingAfterKill
<1>20. CASE KillFails
  BY <1>20 DEF KillFails
<1>21. CASE TermRoundDone
  BY <1>21 DEF TermRoundDone
<1>22. CASE TermWakes
  BY <1>22 DEF TermWakes
<1>23. CASE FreeContext
  BY <1>23 DEF FreeContext
<1>24. CASE ContextsFreed
  BY <1>24 DEF ContextsFreed
<1>25. CASE SayGoodbye \/ FinalizeProgram
  BY <1>25 DEF SayGoodbye, FinalizeProgram
<1>26. CASE Crash \/ Exit
  BY <1>26 DEF Crash, Exit
<1>27. CASE SignalProcess
  BY <1>27 DEF SignalProcess
<1>28. ASSUME NEW i \in Threads, LoopCheck(i) PROVE JoinProgress'
  BY <1>28 DEF LoopCheck
<1>29. ASSUME NEW i \in Threads, Guard(i) PROVE JoinProgress'
  BY <1>29 DEF Guard
<1>30. ASSUME NEW i \in Threads, EnterCall(i) PROVE JoinProgress'
  BY <1>30 DEF EnterCall
<1>31. ASSUME NEW i \in Threads, CallSucceeds(i) PROVE JoinProgress'
  BY <1>31 DEF CallSucceeds
<1>32. ASSUME NEW i \in Threads, CallFails(i) PROVE JoinProgress'
  BY <1>32 DEF CallFails
<1>33. ASSUME NEW i \in Threads, SendPacket(i) PROVE JoinProgress'
  BY <1>33 DEF SendPacket
<1>34. ASSUME NEW i \in Threads, PacketDone(i) PROVE JoinProgress'
  BY <1>34 DEF PacketDone
<1>35. ASSUME NEW i \in Threads, CrashLocksLog(i) PROVE JoinProgress'
  BY <1>35 DEF CrashLocksLog
<1>36. ASSUME NEW i \in Threads, CrashEnds(i) PROVE JoinProgress'
  BY <1>36 DEF CrashEnds
<1>37. ASSUME NEW i \in Threads, HandleSignal(i) PROVE JoinProgress'
  BY <1>37 DEF HandleSignal, CaughtBy, AfterInterrupt
<1>38. ASSUME NEW i \in Threads, SignalThread(i) PROVE JoinProgress'
  BY <1>38 DEF SignalThread
<1>39. CASE UNCHANGED vars
  BY <1>39 DEF vars
<1>40. QED
  BY <1>1, <1>2, <1>3, <1>4, <1>5, <1>6, <1>7, <1>8, <1>9, <1>10, <1>11, <1>12, <1>13, <1>14, <1>15, <1>16, <1>17, <1>18, <1>19, <1>20, <1>21, <1>22, <1>23, <1>24, <1>25, <1>26, <1>27, <1>28, <1>29, <1>30, <1>31, <1>32, <1>33, <1>34, <1>35, <1>36, <1>37, <1>38, <1>39
  DEF Next, MainStep, Discovery, WorkerStep, WorkerEnv

\* Every step keeps the orders to stop where they belong.
LEMMA OrderStep ==
  ASSUME TypeOK, JoinProgress, StopOrders, [Next]_vars
  PROVE  StopOrders'
<1> USE ThreadsAssumption DEF TypeOK, StopOrders, Threads
<1>1. CASE InitializeProgram
  BY <1>1 DEF InitializeProgram
<1>2. CASE PrefixFound
  BY <1>2 DEF PrefixFound
<1>3. CASE PrefixNotFound
  BY <1>3 DEF PrefixNotFound
<1>4. CASE RetryDiscovery
  BY <1>4 DEF RetryDiscovery
<1>5. CASE InitializeThreadContexts
  BY <1>5 DEF InitializeThreadContexts
<1>6. CASE PartiallyDaemonize
  BY <1>6 DEF PartiallyDaemonize
<1>7. CASE StartThread
  BY <1>7 DEF StartThread
<1>8. CASE ThreadsStarted
  BY <1>8 DEF ThreadsStarted
<1>9. CASE StartupFails
  BY <1>9 DEF StartupFails
<1>10. CASE PrintInfo
  BY <1>10 DEF PrintInfo
<1>11. CASE MonitorCheck
  BY <1>11 DEF MonitorCheck
<1>12. CASE MonitorThread
  BY <1>12 DEF MonitorThread
<1>13. CASE MonitorFindsEnded
  BY <1>13 DEF MonitorFindsEnded
<1>14. CASE MonitorDone
  BY <1>14 DEF MonitorDone
<1>15. CASE MonitorWakes
  BY <1>15 DEF MonitorWakes
<1>16. CASE TermSkip
  BY <1>16 DEF TermSkip
<1>17. CASE TermJoin
  BY <1>17 DEF TermJoin
<1>18. CASE TermBusy
  BY <1>18 DEF TermBusy
<1>19. CASE Kill
  BY <1>19 DEF Kill, PendingAfterKill
<1>20. CASE KillFails
  BY <1>20 DEF KillFails
<1>21. CASE TermRoundDone
  BY <1>21 DEF TermRoundDone
<1>22. CASE TermWakes
  BY <1>22 DEF TermWakes
<1>23. CASE FreeContext
  BY <1>23 DEF FreeContext
<1>24. CASE ContextsFreed
  BY <1>24 DEF ContextsFreed
<1>25. CASE SayGoodbye \/ FinalizeProgram
  BY <1>25 DEF SayGoodbye, FinalizeProgram
<1>26. CASE Crash \/ Exit
  BY <1>26 DEF Crash, Exit
<1>27. CASE SignalProcess
  BY <1>27 DEF SignalProcess
<1>28. ASSUME NEW i \in Threads, LoopCheck(i) PROVE StopOrders'
  BY <1>28 DEF LoopCheck
<1>29. ASSUME NEW i \in Threads, Guard(i) PROVE StopOrders'
  BY <1>29 DEF Guard
<1>30. ASSUME NEW i \in Threads, EnterCall(i) PROVE StopOrders'
  BY <1>30 DEF EnterCall
<1>31. ASSUME NEW i \in Threads, CallSucceeds(i) PROVE StopOrders'
  BY <1>31 DEF CallSucceeds
<1>32. ASSUME NEW i \in Threads, CallFails(i) PROVE StopOrders'
  BY <1>32 DEF CallFails
<1>33. ASSUME NEW i \in Threads, SendPacket(i) PROVE StopOrders'
  BY <1>33 DEF SendPacket
<1>34. ASSUME NEW i \in Threads, PacketDone(i) PROVE StopOrders'
  BY <1>34 DEF PacketDone
<1>35. ASSUME NEW i \in Threads, CrashLocksLog(i) PROVE StopOrders'
  BY <1>35 DEF CrashLocksLog
<1>36. ASSUME NEW i \in Threads, CrashEnds(i) PROVE StopOrders'
  BY <1>36 DEF CrashEnds
<1>37. ASSUME NEW i \in Threads, HandleSignal(i) PROVE StopOrders'
  BY <1>37 DEF HandleSignal, CaughtBy, AfterInterrupt
<1>38. ASSUME NEW i \in Threads, SignalThread(i) PROVE StopOrders'
  BY <1>38 DEF SignalThread
<1>39. CASE UNCHANGED vars
  BY <1>39 DEF vars
<1>40. QED
  BY <1>1, <1>2, <1>3, <1>4, <1>5, <1>6, <1>7, <1>8, <1>9, <1>10, <1>11, <1>12, <1>13, <1>14, <1>15, <1>16, <1>17, <1>18, <1>19, <1>20, <1>21, <1>22, <1>23, <1>24, <1>25, <1>26, <1>27, <1>28, <1>29, <1>30, <1>31, <1>32, <1>33, <1>34, <1>35, <1>36, <1>37, <1>38, <1>39
  DEF Next, MainStep, Discovery, WorkerStep, WorkerEnv

\* Every step keeps the reasons for ends and crashes.
LEMMA EndStep ==
  ASSUME TypeOK, StopOrders, EndsExplained, [Next]_vars
  PROVE  EndsExplained'
<1> USE ThreadsAssumption DEF TypeOK, StopOrders, EndsExplained, Threads
<1>1. CASE InitializeProgram
  BY <1>1 DEF InitializeProgram
<1>2. CASE PrefixFound
  BY <1>2 DEF PrefixFound
<1>3. CASE PrefixNotFound
  BY <1>3 DEF PrefixNotFound
<1>4. CASE RetryDiscovery
  BY <1>4 DEF RetryDiscovery
<1>5. CASE InitializeThreadContexts
  BY <1>5 DEF InitializeThreadContexts
<1>6. CASE PartiallyDaemonize
  BY <1>6 DEF PartiallyDaemonize
<1>7. CASE StartThread
  BY <1>7 DEF StartThread
<1>8. CASE ThreadsStarted
  BY <1>8 DEF ThreadsStarted
<1>9. CASE StartupFails
  BY <1>9 DEF StartupFails
<1>10. CASE PrintInfo
  BY <1>10 DEF PrintInfo
<1>11. CASE MonitorCheck
  BY <1>11 DEF MonitorCheck
<1>12. CASE MonitorThread
  BY <1>12 DEF MonitorThread
<1>13. CASE MonitorFindsEnded
  BY <1>13 DEF MonitorFindsEnded
<1>14. CASE MonitorDone
  BY <1>14 DEF MonitorDone
<1>15. CASE MonitorWakes
  BY <1>15 DEF MonitorWakes
<1>16. CASE TermSkip
  BY <1>16 DEF TermSkip
<1>17. CASE TermJoin
  BY <1>17 DEF TermJoin
<1>18. CASE TermBusy
  BY <1>18 DEF TermBusy
<1>19. CASE Kill
  BY <1>19 DEF Kill, PendingAfterKill
<1>20. CASE KillFails
  BY <1>20 DEF KillFails
<1>21. CASE TermRoundDone
  BY <1>21 DEF TermRoundDone
<1>22. CASE TermWakes
  BY <1>22 DEF TermWakes
<1>23. CASE FreeContext
  BY <1>23 DEF FreeContext
<1>24. CASE ContextsFreed
  BY <1>24 DEF ContextsFreed
<1>25. CASE SayGoodbye \/ FinalizeProgram
  BY <1>25 DEF SayGoodbye, FinalizeProgram
<1>26. CASE Crash \/ Exit
  BY <1>26 DEF Crash, Exit
<1>27. CASE SignalProcess
  BY <1>27 DEF SignalProcess
<1>28. ASSUME NEW i \in Threads, LoopCheck(i) PROVE EndsExplained'
  BY <1>28 DEF LoopCheck
<1>29. ASSUME NEW i \in Threads, Guard(i) PROVE EndsExplained'
  BY <1>29 DEF Guard
<1>30. ASSUME NEW i \in Threads, EnterCall(i) PROVE EndsExplained'
  BY <1>30 DEF EnterCall
<1>31. ASSUME NEW i \in Threads, CallSucceeds(i) PROVE EndsExplained'
  BY <1>31 DEF CallSucceeds
<1>32. ASSUME NEW i \in Threads, CallFails(i) PROVE EndsExplained'
  BY <1>32 DEF CallFails
<1>33. ASSUME NEW i \in Threads, SendPacket(i) PROVE EndsExplained'
  BY <1>33 DEF SendPacket
<1>34. ASSUME NEW i \in Threads, PacketDone(i) PROVE EndsExplained'
  BY <1>34 DEF PacketDone
<1>35. ASSUME NEW i \in Threads, CrashLocksLog(i) PROVE EndsExplained'
  BY <1>35 DEF CrashLocksLog
<1>36. ASSUME NEW i \in Threads, CrashEnds(i) PROVE EndsExplained'
  BY <1>36 DEF CrashEnds
<1>37. ASSUME NEW i \in Threads, HandleSignal(i) PROVE EndsExplained'
  BY <1>37 DEF HandleSignal, CaughtBy, AfterInterrupt
<1>38. ASSUME NEW i \in Threads, SignalThread(i) PROVE EndsExplained'
  BY <1>38 DEF SignalThread
<1>39. CASE UNCHANGED vars
  BY <1>39 DEF vars
<1>40. QED
  BY <1>1, <1>2, <1>3, <1>4, <1>5, <1>6, <1>7, <1>8, <1>9, <1>10, <1>11, <1>12, <1>13, <1>14, <1>15, <1>16, <1>17, <1>18, <1>19, <1>20, <1>21, <1>22, <1>23, <1>24, <1>25, <1>26, <1>27, <1>28, <1>29, <1>30, <1>31, <1>32, <1>33, <1>34, <1>35, <1>36, <1>37, <1>38, <1>39
  DEF Next, MainStep, Discovery, WorkerStep, WorkerEnv

\* The initial state satisfies the inductive invariant.
LEMMA InitSafety == Init => SafetyInv
<1> SUFFICES ASSUME Init PROVE SafetyInv
  OBVIOUS
<1> USE ThreadsAssumption DEF Init
<1>1. main \in MainPlaces /\ worker \in [Threads -> WorkerPlaces]
  BY DEF MainPlaces, WorkerPlaces
<1>2. next \in 1..(N + 1) /\ foreign \in 0..MaxForeign
  OBVIOUS
<1>3. /\ flag \in [Threads -> BOOLEAN]
      /\ pending \in [Threads -> {"none", "own", "foreign"}]
      /\ call \in [Threads -> {"read", "writev"}]
  OBVIOUS
<1>4. /\ joined \in [Threads -> BOOLEAN]
      /\ reaped \in [Threads -> BOOLEAN]
      /\ freed \in [Threads -> BOOLEAN]
      /\ crashed \in [Threads -> BOOLEAN]
  OBVIOUS
<1>5. TypeOK
  BY <1>1, <1>2, <1>3, <1>4 DEF TypeOK, NOBODY
<1>6. JoinProgress
  BY DEF JoinProgress
<1>7. StopOrders
  BY DEF StopOrders
<1>8. EndsExplained
  BY DEF EndsExplained
<1>9. QED
  BY <1>5, <1>6, <1>7, <1>8 DEF SafetyInv

\* SafetyInv is an invariant: it holds at first and every step keeps it.
THEOREM SafetyInvariant == Spec => []SafetyInv
<1>1. SafetyInv /\ [Next]_vars => SafetyInv'
  BY TypeStep, JoinStep, OrderStep, EndStep DEF SafetyInv
<1>2. QED
  BY InitSafety, <1>1, PTL DEF Spec

\* Type correctness, for every number of threads.
THEOREM TypeCorrect == Spec => []TypeOK
<1>1. SafetyInv => TypeOK
  BY DEF SafetyInv
<1>2. QED
  BY SafetyInvariant, <1>1, PTL

\* _free_thread_contexts() frees nothing that a translator thread could still
\* use, however the joins of _terminate_threads() interleave with the ends of
\* the threads.
THEOREM ContextsOutliveThreads == Spec => []NoUseAfterFree
<1>1. SafetyInv => NoUseAfterFree
  BY DEF SafetyInv, JoinProgress, NoUseAfterFree
<1>2. QED
  BY SafetyInvariant, <1>1, PTL

\* pthread_tryjoin_np() is never called for a thread it has already joined.
THEOREM ThreadsJoinedOnce == Spec => []NoSecondJoin
<1>1. SafetyInv => NoSecondJoin
  BY DEF SafetyInv, TypeOK, JoinProgress, NoSecondJoin, Threads
<1>2. QED
  BY SafetyInvariant, <1>1, PTL

\* A translator thread stops on the order of the main thread only.
THEOREM StopsComeFromMain == Spec => []OnlyMainStopsThreads
<1>1. SafetyInv => OnlyMainStopsThreads
  BY DEF SafetyInv, StopOrders, OnlyMainStopsThreads
<1>2. QED
  BY SafetyInvariant, <1>1, PTL

\* The crash code always has a failed system call behind it.
THEOREM CrashesHaveReasons == Spec => []NoSpuriousCrash
<1>1. SafetyInv => NoSpuriousCrash
  BY DEF SafetyInv, EndsExplained, NoSpuriousCrash
<1>2. QED
  BY SafetyInvariant, <1>1, PTL

(****************************************************************************)
(* The log mutex.                                                           *)
(****************************************************************************)

\* Who has the mutex is printing, and who prints has it.
MutexHeld == \A i \in Threads : worker[i] = "logging" <=> logLock = i

\* A thread that has not been started does nothing.
UnbornInv ==
    /\ main \in Starting \ {"start"} => \A i \in Threads : worker[i] = "unborn"
    /\ main = "start" => \A i \in Threads : i >= next => worker[i] = "unborn"

\* The main thread leaves the mutex as it is, and starts only unborn threads.
LEMMA MainKeepsMutex ==
  ASSUME TypeOK, UnbornInv, MutexHeld, MainStep \/ Discovery \/ StartupFails \/ SignalProcess
  PROVE  UnbornInv' /\ MutexHeld'
<1> USE ThreadsAssumption DEF TypeOK, Threads, UnbornInv, MutexHeld
<1>1. CASE StartThread
  <2>1. /\ next \in Threads /\ worker[next] = "unborn"
        /\ UNCHANGED <<main, logLock>> /\ main = "start" /\ next' = next + 1
        /\ worker' = [worker EXCEPT ![next] = "loop"]
    BY <1>1 DEF StartThread
  <2>2. \A i \in Threads : i # next => worker'[i] = worker[i]
    BY <2>1
  <2>3. worker'[next] = "loop" /\ logLock # next
    BY <2>1
  <2> QED
    BY <2>1, <2>2, <2>3
<1>2. CASE FinalizeProgram \/ Exit
  BY <1>2 DEF FinalizeProgram, Exit
<1>3. CASE PartiallyDaemonize
  BY <1>3 DEF PartiallyDaemonize
<1>4. CASE SignalProcess
  BY <1>4 DEF SignalProcess
<1>5. CASE \/ InitializeProgram \/ RetryDiscovery \/ InitializeThreadContexts \/ PrefixFound
           \/ PrefixNotFound
  BY <1>5 DEF InitializeProgram, RetryDiscovery, InitializeThreadContexts, PrefixFound, PrefixNotFound
<1>6. CASE \/ StartupFails \/ ThreadsStarted \/ PrintInfo \/ MonitorCheck \/ MonitorThread
           \/ MonitorFindsEnded \/ MonitorDone \/ MonitorWakes \/ TermSkip \/ TermJoin \/ TermBusy
           \/ Kill \/ KillFails \/ TermRoundDone \/ TermWakes \/ FreeContext \/ ContextsFreed
           \/ SayGoodbye \/ Crash
  <2>1. UNCHANGED <<worker, logLock>> /\ main' \notin Starting
    BY <1>6 DEF StartupFails, ThreadsStarted, PrintInfo, MonitorCheck, MonitorThread,
                MonitorFindsEnded, MonitorDone, MonitorWakes, TermSkip, TermJoin, TermBusy,
                Kill, KillFails, TermRoundDone, TermWakes, FreeContext, ContextsFreed, SayGoodbye, Crash
  <2> QED
    BY <2>1
<1> QED
  BY <1>1, <1>2, <1>3, <1>4, <1>5, <1>6 DEF MainStep, Discovery

\* A translator thread takes the mutex when it is free, and gives its own back.
LEMMA WorkerKeepsMutex ==
  ASSUME TypeOK, UnbornInv, MutexHeld,
         NEW i \in Threads, WorkerStep(i) \/ WorkerEnv(i) \/ HandleSignal(i)
  PROVE  UnbornInv' /\ MutexHeld'
<1> USE DEF TypeOK, NOBODY
<1>1. /\ worker[i] # "unborn" /\ UNCHANGED mainVars
      /\ \E place \in WorkerPlaces : worker' = [worker EXCEPT ![i] = place]
      /\ \/ UNCHANGED logLock /\ (worker'[i] = "logging" <=> worker[i] = "logging")
         \/ logLock = NOBODY /\ logLock' = i /\ worker'[i] = "logging"
         \/ worker[i] = "logging" /\ logLock' = NOBODY /\ worker'[i] = "ended"
  <2>1. CASE LoopCheck(i) \/ Guard(i) \/ EnterCall(i) \/ PacketDone(i)
    BY <2>1 DEF LoopCheck, Guard, EnterCall, PacketDone, WorkerPlaces
  <2>2. CASE CrashLocksLog(i) \/ CrashEnds(i)
    BY <2>2 DEF CrashLocksLog, CrashEnds, WorkerPlaces
  <2>3. CASE CallSucceeds(i) \/ CallFails(i) \/ SendPacket(i)
    BY <2>3 DEF CallSucceeds, CallFails, SendPacket, WorkerPlaces
  <2>4. CASE SignalThread(i)
    BY <2>4 DEF SignalThread
  <2>5. CASE HandleSignal(i)
    BY <2>5 DEF HandleSignal, AfterInterrupt, WorkerPlaces
  <2> QED
    BY <2>1, <2>2, <2>3, <2>4, <2>5 DEF WorkerStep, WorkerEnv
<1>2. \A j \in Threads : j # i => worker'[j] = worker[j]
  BY <1>1
<1>3. worker[i] = "logging" <=> logLock = i
  BY DEF MutexHeld
<1>4. i # NOBODY /\ \A j \in Threads : j # NOBODY
  BY ThreadsAssumption DEF Threads
<1>5. UnbornInv'
  BY <1>1, <1>2 DEF UnbornInv
<1>6. ASSUME NEW j \in Threads PROVE worker'[j] = "logging" <=> logLock' = j
  <2>1. worker[j] = "logging" <=> logLock = j
    BY DEF MutexHeld
  <2> QED
    BY <1>1, <1>2, <1>3, <1>4, <2>1
<1> QED
  BY <1>5, <1>6 DEF MutexHeld

\* Whoever waits for the log mutex waits for a thread that is printing: none
\* ends with the mutex.  When the threads have been joined it is free, and
\* nobody is left who could take it before it is destroyed.
THEOREM MutexAlwaysComesBack == Spec => []MutexComesBack
<1>1. Init => UnbornInv /\ MutexHeld
  BY ThreadsAssumption DEF Init, UnbornInv, MutexHeld, NOBODY, Threads
<1>2. TypeOK /\ UnbornInv /\ MutexHeld /\ [Next]_vars => UnbornInv' /\ MutexHeld'
  <2>1. CASE UNCHANGED vars
    BY <2>1 DEF vars, UnbornInv, MutexHeld
  <2> QED
    BY <2>1, MainKeepsMutex, WorkerKeepsMutex DEF Next
<1>3. SafetyInv /\ MutexHeld => MutexComesBack
  <2> SUFFICES ASSUME SafetyInv, MutexHeld, main \in Finishing \cup {"exited"}
               PROVE  logLock = NOBODY /\ \A i \in Threads : worker[i] # "crash"
    BY DEF MutexComesBack, MutexHeld
  <2>1. \A i \in Threads : worker[i] = "ended"
    BY DEF SafetyInv, JoinProgress
  <2>2. logLock \in Threads \cup {NOBODY} /\ logLock \notin Threads
    BY <2>1 DEF SafetyInv, TypeOK, MutexHeld
  <2> QED
    BY <2>1, <2>2
<1> QED
  BY <1>1, <1>2, <1>3, SafetyInvariant, TypeCorrect, PTL DEF Spec
=============================================================================
