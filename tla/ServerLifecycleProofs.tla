----------------------- MODULE ServerLifecycleProofs -----------------------
(***************************************************************************)
(* Proofs about the life of the server, for any number of starts, stops,   *)
(* clients, commands, callbacks and failures.                              *)
(***************************************************************************)
EXTENDS ServerLifecycle, TLAPS

(* Whoever has listened has an open acceptor, and only one thread at a     *)
(* time waits in accept, with no network thread to be joined.              *)
ListenInv ==
    /\ netThread # "none" => acceptor
    /\ link # "none" => acceptor
    /\ pc["watchdog"] \in {"check", "joinNet", "accept", "ended"} => acceptor
    /\ pc["main"] \in {"halt", "joinWatchdog"} => acceptor \/ pc["watchdog"] = "listen"
    /\ pc["main"] = "joinCommands" => acceptor
    /\ pc["main"] \in {"joinCommands", "joinNet"} => pc["watchdog"] = "none"
    /\ pc["main"] = "accept" => acceptor /\ pc["watchdog"] \in {"none", "listen"}
    /\ \A t \in Listeners : pc[t] = "accept" => netThread = "none"
    /\ dead # "terminate"

(* Before a second start nobody is about to open an open acceptor.         *)
StartInv ==
    /\ count["start"] = 0 =>
           /\ ~acceptor /\ pc["watchdog"] = "none"
           /\ pc["main"] \in {"idle", "joinForStop", "joinNet"}
    /\ count["start"] = 1 /\ pc["main"] = "listen" => ~acceptor /\ pc["watchdog"] = "none"
    /\ count["start"] = 1 /\ pc["watchdog"] = "listen" => ~acceptor
    /\ count["start"] = 1 /\ pc["watchdog"] = "listen" => pc["main"] # "accept"
    /\ dead = "open" => count["start"] > 1

(* Once there is a worker there always is one.                             *)
WorkerInv ==
    /\ started => worker # "none"
    /\ dead = "null" => ~started

ServerInv == TypeOK /\ ListenInv /\ StartInv /\ WorkerInv

(* The commands thread only meets the three commands.                      *)
LEMMA HeadInbox ==
    ASSUME DataOK, inbox # <<>>
    PROVE  Head(inbox) \in Kinds
BY DEF DataOK

(* Every action keeps the places of the threads.                           *)
LEMMA ThreadsStep ==
    ASSUME ServerInv, Next
    PROVE  ThreadsOK'
<1> USE DEF ServerInv, At, Alive, Goes, Counts, life, flags, conn, msgs, prof,
           Listeners, Users, Kinds
<1>1. ASSUME NEW t \in Listeners, ListenThrows(t)
      PROVE  ThreadsOK'
  BY <1>1 DEF TypeOK, ThreadsOK, ListenThrows
<1>2. ASSUME NEW t \in Listeners, ListenSync(t)
      PROVE  ThreadsOK'
  BY <1>2 DEF TypeOK, ThreadsOK, ListenSync
<1>3. ASSUME NEW t \in Listeners, ListenAsync(t)
      PROVE  ThreadsOK'
  BY <1>3 DEF TypeOK, ThreadsOK, ListenAsync, SpawnRun, Listened
<1>4. ASSUME NEW t \in Listeners, AcceptSync(t)
      PROVE  ThreadsOK'
  BY <1>4 DEF TypeOK, ThreadsOK, AcceptSync, SpawnRun, Listened, NewConnection
<1>5. ASSUME NEW t \in Listeners, AcceptSyncFails(t)
      PROVE  ThreadsOK'
  BY <1>5 DEF TypeOK, ThreadsOK, AcceptSyncFails, SpawnRun, Listened
<1>6. ASSUME NEW t \in Listeners, StopJoins(t)
      PROVE  ThreadsOK'
  BY <1>6 DEF TypeOK, ThreadsOK, StopJoins, Joined, Closed
<1>7. ASSUME NEW w \in WaitModes, StartServer(w)
      PROVE  ThreadsOK'
  BY <1>7 DEF TypeOK, ThreadsOK, StartServer, is_connected
<1>8. CASE HaltWatchdog
  BY <1>8 DEF TypeOK, ThreadsOK, HaltWatchdog
<1>9. CASE JoinWatchdog
  BY <1>9 DEF TypeOK, ThreadsOK, JoinWatchdog, Over
<1>10. CASE JoinCommands
  BY <1>10 DEF TypeOK, ThreadsOK, JoinCommands, Over
<1>11. CASE StopServer
  BY <1>11 DEF TypeOK, ThreadsOK, StopServer
<1>12. CASE StopNetwork
  BY <1>12 DEF TypeOK, ThreadsOK, StopNetwork, Over
<1>13a. CASE Allocates
  BY <1>13a DEF TypeOK, ThreadsOK, Allocates
<1>13b. CASE LockForAlloc
  BY <1>13b DEF TypeOK, ThreadsOK, LockForAlloc, Enter
<1>13c. CASE Collects
  BY <1>13c DEF TypeOK, ThreadsOK, Collects, Enter
<1>13d. ASSUME NEW k \in {"pass", "search"}, FindPaused(k)
      PROVE  ThreadsOK'
  BY <1>13d DEF TypeOK, ThreadsOK, FindPaused, Enter
<1>13e. CASE FindRunning
  BY <1>13e DEF TypeOK, ThreadsOK, FindRunning, Leave
<1>13f. ASSUME NEW k \in {"pass", "search"}, LockForFind(k)
      PROVE  ThreadsOK'
  BY <1>13f DEF TypeOK, ThreadsOK, LockForFind, Enter
<1>13g. CASE EndFind
  BY <1>13g DEF TypeOK, ThreadsOK, EndFind, Leave, Unlocked
<1>14. CASE AddAllocation
  BY <1>14 DEF TypeOK, ThreadsOK, AddAllocation, Leave, Unlocked, Within
<1>15. CASE Collect
  BY <1>15 DEF TypeOK, ThreadsOK, Collect, Leave, Unlocked, Within
<1>16. ASSUME NEW t \in Users, Dangle(t)
      PROVE  ThreadsOK'
  BY <1>16 DEF TypeOK, ThreadsOK, Dangle, Leave, Unlocked, Within
<1>17. CASE WorkerTakes
  BY <1>17 DEF TypeOK, ThreadsOK, WorkerTakes, WorkerRuns, Waiting
<1>18. CASE WorkerIdles
  BY <1>18 DEF TypeOK, ThreadsOK, WorkerIdles, WorkerRuns, Drained
<1>19. CASE WorkerEnds
  BY <1>19 DEF TypeOK, ThreadsOK, WorkerEnds, WorkerRuns
<1>20. CASE TakeCommand
  BY <1>20, HeadInbox DEF TypeOK, ThreadsOK, TakeCommand, Enter
<1>21. ASSUME NEW k \in {"pause", "resume"}, RunCommand(k)
      PROVE  ThreadsOK'
  BY <1>21 DEF TypeOK, ThreadsOK, RunCommand, Leave, Unlocked, Within
<1>22. CASE CommandsEnd
  BY <1>22 DEF TypeOK, ThreadsOK, CommandsEnd
<1>23. CASE \/ AcceptAsync \/ AcceptAsyncFails \/ ReadMessage \/ ReadLost \/ ReadFails
               \/ RunEnds
  BY <1>23 DEF TypeOK, ThreadsOK, AcceptAsync, IoRuns, NewConnection, AcceptAsyncFails,
     ReadMessage, ReadLost, Lost, ReadFails, RunEnds
<1>24. CASE \/ Dial \/ Disconnect
            \/ \E k \in Commands : Send(k)
  BY <1>24 DEF TypeOK, ThreadsOK, Dial, Send, Disconnect
<1>25. CASE \/ MonoMissing \/ InstallCallbacks \/ CreateWorker \/ StopWorker
               \/ ReplaceWorker
  BY <1>25 DEF TypeOK, ThreadsOK, MonoMissing, InstallCallbacks, CreateWorker,
     StopWorker, Retired, ReplaceWorker
<1>26. CASE \/ WatchdogRelistens \/ WatchdogSleeps \/ WatchdogEnds
  BY <1>26 DEF TypeOK, ThreadsOK, WatchdogRelistens, WatchdogHalted, WatchdogSleeps,
     WatchdogEnds, vars
<1> QED
  BY <1>1, <1>2, <1>3, <1>4, <1>5, <1>6, <1>7, <1>8, <1>9, <1>10, <1>11, <1>12, <1>13a,
     <1>13b, <1>13c, <1>13d, <1>13e, <1>13f, <1>13g,
     <1>14, <1>15, <1>16, <1>17, <1>18, <1>19, <1>20, <1>21, <1>22, <1>23, <1>24, <1>25,
     <1>26 DEF Next, Listen, MainStep, WatchdogStep, IoStep, WorkerStep, CommandsStep,
     AppStep, Environment

(* Every action keeps the flags.                                           *)
LEMMA FlagsStep ==
    ASSUME ServerInv, Next
    PROVE  FlagsOK'
<1> USE DEF ServerInv, At, Alive, Goes, Counts, life, flags, conn, msgs, prof,
           Listeners, Users, Kinds
<1>1. ASSUME NEW t \in Listeners, ListenThrows(t)
      PROVE  FlagsOK'
  BY <1>1 DEF TypeOK, FlagsOK, ServerFlagsOK, NetFlagsOK,
     ProfilerFlagsOK, ListenThrows
<1>2. ASSUME NEW t \in Listeners, ListenSync(t)
      PROVE  FlagsOK'
  BY <1>2 DEF TypeOK, FlagsOK, ServerFlagsOK, NetFlagsOK,
     ProfilerFlagsOK, ListenSync
<1>3. ASSUME NEW t \in Listeners, ListenAsync(t)
      PROVE  FlagsOK'
  BY <1>3 DEF TypeOK, FlagsOK, ServerFlagsOK, NetFlagsOK,
     ProfilerFlagsOK, ListenAsync, SpawnRun, Listened
<1>4. ASSUME NEW t \in Listeners, AcceptSync(t)
      PROVE  FlagsOK'
  BY ZenonT(40), <1>4 DEF TypeOK, FlagsOK, ServerFlagsOK, NetFlagsOK,
     ProfilerFlagsOK, AcceptSync, SpawnRun, Listened, NewConnection
<1>5. ASSUME NEW t \in Listeners, AcceptSyncFails(t)
      PROVE  FlagsOK'
  BY <1>5 DEF TypeOK, FlagsOK, ServerFlagsOK, NetFlagsOK,
     ProfilerFlagsOK, AcceptSyncFails, SpawnRun, Listened
<1>6. ASSUME NEW t \in Listeners, StopJoins(t)
      PROVE  FlagsOK'
  BY ZenonT(40), <1>6 DEF TypeOK, FlagsOK, ServerFlagsOK, NetFlagsOK,
     ProfilerFlagsOK, StopJoins, Joined, Closed
<1>7. CASE AcceptAsync
  BY <1>7 DEF TypeOK, FlagsOK, ServerFlagsOK, NetFlagsOK,
     ProfilerFlagsOK, AcceptAsync, IoRuns, NewConnection
<1>8. CASE AcceptAsyncFails
  <2>1. accepting' = FALSE
    BY <1>8 DEF AcceptAsyncFails, IoRuns
  <2>2. /\ wait' = wait /\ haltWatchdog' = haltWatchdog /\ haltCommands' = haltCommands
        /\ acceptor' = acceptor /\ listening' = listening /\ netStop' = netStop
        /\ reading' = reading /\ dialing' = dialing /\ started' = started
        /\ hooked' = hooked /\ workerStop' = workerStop /\ empty' = empty
        /\ paused' = paused
    BY <1>8 DEF AcceptAsyncFails, IoRuns
  <2>3. ServerFlagsOK /\ NetFlagsOK /\ ProfilerFlagsOK
    BY DEF TypeOK, FlagsOK
  <2>4. ServerFlagsOK'
    BY <2>1, <2>2, <2>3, Zenon DEF ServerFlagsOK
  <2>5. NetFlagsOK'
    BY <2>1, <2>2, <2>3, Zenon DEF NetFlagsOK
  <2>6. ProfilerFlagsOK'
    BY <2>1, <2>2, <2>3, Zenon DEF ProfilerFlagsOK
  <2> QED
    BY <2>4, <2>5, <2>6 DEF FlagsOK
<1>9. CASE ReadMessage
  BY <1>9 DEF TypeOK, FlagsOK, ServerFlagsOK, NetFlagsOK,
     ProfilerFlagsOK, ReadMessage, IoRuns
<1>10. CASE ReadLost
  <2>1. reading' = FALSE
    BY <1>10 DEF ReadLost, IoRuns, Lost
  <2>2. /\ wait' = wait /\ haltWatchdog' = haltWatchdog /\ haltCommands' = haltCommands
        /\ acceptor' = acceptor /\ accepting' = accepting /\ listening' = listening
        /\ netStop' = netStop /\ dialing' = dialing /\ started' = started
        /\ hooked' = hooked /\ workerStop' = workerStop /\ empty' = empty
        /\ paused' = paused
    BY <1>10 DEF ReadLost, IoRuns, Lost
  <2>3. ServerFlagsOK /\ NetFlagsOK /\ ProfilerFlagsOK
    BY DEF TypeOK, FlagsOK
  <2>4. ServerFlagsOK'
    BY <2>1, <2>2, <2>3, Zenon DEF ServerFlagsOK
  <2>5. NetFlagsOK'
    BY <2>1, <2>2, <2>3, Zenon DEF NetFlagsOK
  <2>6. ProfilerFlagsOK'
    BY <2>1, <2>2, <2>3, Zenon DEF ProfilerFlagsOK
  <2> QED
    BY <2>4, <2>5, <2>6 DEF FlagsOK
<1>11. CASE ReadFails
  <2>1. reading' = FALSE
    BY <1>11 DEF ReadFails, IoRuns
  <2>2. /\ wait' = wait /\ haltWatchdog' = haltWatchdog /\ haltCommands' = haltCommands
        /\ acceptor' = acceptor /\ accepting' = accepting /\ listening' = listening
        /\ netStop' = netStop /\ dialing' = dialing /\ started' = started
        /\ hooked' = hooked /\ workerStop' = workerStop /\ empty' = empty
        /\ paused' = paused
    BY <1>11 DEF ReadFails, IoRuns
  <2>3. ServerFlagsOK /\ NetFlagsOK /\ ProfilerFlagsOK
    BY DEF TypeOK, FlagsOK
  <2>4. ServerFlagsOK'
    BY <2>1, <2>2, <2>3, Zenon DEF ServerFlagsOK
  <2>5. NetFlagsOK'
    BY <2>1, <2>2, <2>3, Zenon DEF NetFlagsOK
  <2>6. ProfilerFlagsOK'
    BY <2>1, <2>2, <2>3, Zenon DEF ProfilerFlagsOK
  <2> QED
    BY <2>4, <2>5, <2>6 DEF FlagsOK
<1>12. CASE RunEnds
  BY <1>12 DEF TypeOK, FlagsOK, ServerFlagsOK, NetFlagsOK,
     ProfilerFlagsOK, RunEnds, IoRuns
<1>13. CASE Dial
  BY <1>13 DEF TypeOK, FlagsOK, ServerFlagsOK, NetFlagsOK,
     ProfilerFlagsOK, Dial
<1>14. ASSUME NEW k \in Commands, Send(k)
      PROVE  FlagsOK'
  BY <1>14 DEF TypeOK, FlagsOK, ServerFlagsOK, NetFlagsOK,
     ProfilerFlagsOK, Send
<1>15. CASE Disconnect
  BY <1>15 DEF TypeOK, FlagsOK, ServerFlagsOK, NetFlagsOK,
     ProfilerFlagsOK, Disconnect
<1>16. ASSUME NEW w \in WaitModes, StartServer(w)
      PROVE  FlagsOK'
  BY <1>16, ServerBoundsAssumption DEF TypeOK, FlagsOK, ServerFlagsOK, NetFlagsOK,
     ProfilerFlagsOK, StartServer, is_connected
<1>17. CASE HaltWatchdog
  BY <1>17 DEF TypeOK, FlagsOK, ServerFlagsOK, NetFlagsOK,
     ProfilerFlagsOK, HaltWatchdog
<1>18. CASE JoinWatchdog
  BY ZenonT(40), <1>18 DEF TypeOK, FlagsOK, ServerFlagsOK, NetFlagsOK,
     ProfilerFlagsOK, JoinWatchdog, Over
<1>19. CASE JoinCommands
  <2>1. haltCommands' = FALSE
    BY <1>19 DEF JoinCommands, Over
  <2>2. /\ wait' = wait /\ haltWatchdog' = haltWatchdog /\ acceptor' = acceptor
        /\ accepting' = accepting /\ listening' = listening /\ netStop' = netStop
        /\ reading' = reading /\ dialing' = dialing /\ started' = started
        /\ hooked' = hooked /\ workerStop' = workerStop /\ empty' = empty
        /\ paused' = paused
    BY <1>19 DEF JoinCommands, Over
  <2>3. ServerFlagsOK /\ NetFlagsOK /\ ProfilerFlagsOK
    BY DEF TypeOK, FlagsOK
  <2>4. ServerFlagsOK'
    BY <2>1, <2>2, <2>3, Zenon DEF ServerFlagsOK
  <2>5. NetFlagsOK'
    BY <2>1, <2>2, <2>3, Zenon DEF NetFlagsOK
  <2>6. ProfilerFlagsOK'
    BY <2>1, <2>2, <2>3, Zenon DEF ProfilerFlagsOK
  <2> QED
    BY <2>4, <2>5, <2>6 DEF FlagsOK
<1>20. CASE StopServer
  BY <1>20 DEF TypeOK, FlagsOK, ServerFlagsOK, NetFlagsOK,
     ProfilerFlagsOK, StopServer
<1>21. CASE StopNetwork
  BY <1>21 DEF TypeOK, FlagsOK, ServerFlagsOK, NetFlagsOK,
     ProfilerFlagsOK, StopNetwork, Over
<1>22. CASE WatchdogRelistens
  BY <1>22 DEF TypeOK, FlagsOK, ServerFlagsOK, NetFlagsOK,
     ProfilerFlagsOK, WatchdogRelistens, WatchdogHalted
<1>23. CASE WatchdogSleeps
  BY <1>23 DEF TypeOK, FlagsOK, ServerFlagsOK, NetFlagsOK,
     ProfilerFlagsOK, WatchdogSleeps, vars
<1>24. CASE WatchdogEnds
  BY <1>24 DEF TypeOK, FlagsOK, ServerFlagsOK, NetFlagsOK,
     ProfilerFlagsOK, WatchdogEnds, WatchdogHalted
<1>25. CASE MonoMissing
  BY <1>25 DEF TypeOK, FlagsOK, ServerFlagsOK, NetFlagsOK,
     ProfilerFlagsOK, MonoMissing
<1>26. CASE InstallCallbacks
  BY <1>26 DEF TypeOK, FlagsOK, ServerFlagsOK, NetFlagsOK,
     ProfilerFlagsOK, InstallCallbacks
<1>27. CASE CreateWorker
  BY <1>27 DEF TypeOK, FlagsOK, ServerFlagsOK, NetFlagsOK,
     ProfilerFlagsOK, CreateWorker
<1>28. CASE StopWorker
  BY ZenonT(40), <1>28 DEF TypeOK, FlagsOK, ServerFlagsOK, NetFlagsOK,
     ProfilerFlagsOK, StopWorker, Retired
<1>29. CASE ReplaceWorker
  BY ZenonT(40), <1>29 DEF TypeOK, FlagsOK, ServerFlagsOK, NetFlagsOK,
     ProfilerFlagsOK, ReplaceWorker
<1>30a. CASE Allocates
  BY <1>30a DEF TypeOK, FlagsOK, ServerFlagsOK, NetFlagsOK,
     ProfilerFlagsOK, Allocates
<1>30b. CASE LockForAlloc
  BY <1>30b DEF TypeOK, FlagsOK, ServerFlagsOK, NetFlagsOK,
     ProfilerFlagsOK, LockForAlloc, Enter
<1>30c. CASE Collects
  BY <1>30c DEF TypeOK, FlagsOK, ServerFlagsOK, NetFlagsOK,
     ProfilerFlagsOK, Collects, Enter
<1>30d. ASSUME NEW k \in {"pass", "search"}, FindPaused(k)
      PROVE  FlagsOK'
  BY <1>30d DEF TypeOK, FlagsOK, ServerFlagsOK, NetFlagsOK,
     ProfilerFlagsOK, FindPaused, Enter
<1>30e. CASE FindRunning
  BY <1>30e DEF TypeOK, FlagsOK, ServerFlagsOK, NetFlagsOK,
     ProfilerFlagsOK, FindRunning, Leave
<1>30f. ASSUME NEW k \in {"pass", "search"}, LockForFind(k)
      PROVE  FlagsOK'
  BY <1>30f DEF TypeOK, FlagsOK, ServerFlagsOK, NetFlagsOK,
     ProfilerFlagsOK, LockForFind, Enter
<1>30g. CASE EndFind
  BY <1>30g DEF TypeOK, FlagsOK, ServerFlagsOK, NetFlagsOK,
     ProfilerFlagsOK, EndFind, Leave, Unlocked
<1>31. CASE AddAllocation
  BY <1>31 DEF TypeOK, FlagsOK, ServerFlagsOK, NetFlagsOK,
     ProfilerFlagsOK, AddAllocation, Leave, Unlocked, Within
<1>32. CASE Collect
  BY <1>32 DEF TypeOK, FlagsOK, ServerFlagsOK, NetFlagsOK,
     ProfilerFlagsOK, Collect, Leave, Unlocked, Within
<1>33. ASSUME NEW t \in Users, Dangle(t)
      PROVE  FlagsOK'
  BY <1>33 DEF TypeOK, FlagsOK, ServerFlagsOK, NetFlagsOK,
     ProfilerFlagsOK, Dangle, Leave, Unlocked, Within
<1>34. CASE WorkerTakes
  BY ZenonT(40), <1>34 DEF TypeOK, FlagsOK, ServerFlagsOK, NetFlagsOK,
     ProfilerFlagsOK, WorkerTakes, WorkerRuns, Waiting
<1>35. CASE WorkerIdles
  BY <1>35 DEF TypeOK, FlagsOK, ServerFlagsOK, NetFlagsOK,
     ProfilerFlagsOK, WorkerIdles, WorkerRuns, Drained
<1>36. CASE WorkerEnds
  BY <1>36 DEF TypeOK, FlagsOK, ServerFlagsOK, NetFlagsOK,
     ProfilerFlagsOK, WorkerEnds, WorkerRuns
<1>37. CASE TakeCommand
  BY <1>37 DEF TypeOK, FlagsOK, ServerFlagsOK, NetFlagsOK,
     ProfilerFlagsOK, TakeCommand, Enter
<1>38. ASSUME NEW k \in {"pause", "resume"}, RunCommand(k)
      PROVE  FlagsOK'
  <2>1. paused' \in {paused, TRUE, FALSE}
    BY <1>38 DEF RunCommand
  <2>2. /\ wait' = wait /\ haltWatchdog' = haltWatchdog /\ haltCommands' = haltCommands
        /\ acceptor' = acceptor /\ accepting' = accepting /\ listening' = listening
        /\ netStop' = netStop /\ reading' = reading /\ dialing' = dialing
        /\ started' = started /\ hooked' = hooked /\ workerStop' = workerStop
        /\ empty' = empty
    BY <1>38 DEF RunCommand
  <2>3. ServerFlagsOK /\ NetFlagsOK /\ ProfilerFlagsOK
    BY DEF TypeOK, FlagsOK
  <2>4. ServerFlagsOK'
    BY <2>1, <2>2, <2>3, Zenon DEF ServerFlagsOK
  <2>5. NetFlagsOK'
    BY <2>1, <2>2, <2>3, Zenon DEF NetFlagsOK
  <2>6. ProfilerFlagsOK'
    BY <2>1, <2>2, <2>3, Zenon DEF ProfilerFlagsOK
  <2> QED
    BY <2>4, <2>5, <2>6 DEF FlagsOK
<1>39. CASE CommandsEnd
  BY <1>39 DEF TypeOK, FlagsOK, ServerFlagsOK, NetFlagsOK,
     ProfilerFlagsOK, CommandsEnd
<1> QED
  BY <1>1, <1>2, <1>3, <1>4, <1>5, <1>6, <1>7, <1>8, <1>9, <1>10, <1>11, <1>12, <1>13,
     <1>14, <1>15, <1>16, <1>17, <1>18, <1>19, <1>20, <1>21, <1>22, <1>23, <1>24, <1>25,
     <1>26, <1>27, <1>28, <1>29, <1>30a, <1>30b, <1>30c, <1>30d, <1>30e, <1>30f, <1>30g,
     <1>31, <1>32, <1>33, <1>34, <1>35, <1>36, <1>37,
     <1>38, <1>39 DEF Next, Listen, MainStep, WatchdogStep, IoStep, WorkerStep,
     CommandsStep, AppStep, Environment

(* Every action keeps the other types.                                     *)
LEMMA DataStep ==
    ASSUME ServerInv, Next
    PROVE  DataOK'
<1> USE DEF ServerInv, At, Alive, Goes, Counts, life, flags, conn, msgs, prof,
           Listeners, Users, Kinds
<1>1. ASSUME NEW t \in Listeners, ListenThrows(t)
      PROVE  DataOK'
  BY <1>1 DEF TypeOK, ThreadsOK, DataOK, Bounded, ListenThrows
<1>2. ASSUME NEW t \in Listeners, ListenSync(t)
      PROVE  DataOK'
  BY <1>2 DEF TypeOK, ThreadsOK, DataOK, Bounded, ListenSync
<1>3. ASSUME NEW t \in Listeners, ListenAsync(t)
      PROVE  DataOK'
  BY <1>3 DEF TypeOK, ThreadsOK, DataOK, Bounded, ListenAsync, SpawnRun, Listened
<1>4. ASSUME NEW t \in Listeners, AcceptSync(t)
      PROVE  DataOK'
  BY <1>4 DEF TypeOK, ThreadsOK, DataOK, Bounded, AcceptSync, SpawnRun, Listened,
     NewConnection
<1>5. ASSUME NEW t \in Listeners, AcceptSyncFails(t)
      PROVE  DataOK'
  BY <1>5 DEF TypeOK, ThreadsOK, DataOK, Bounded, AcceptSyncFails, SpawnRun, Listened
<1>6. ASSUME NEW t \in Listeners, StopJoins(t)
      PROVE  DataOK'
  BY <1>6 DEF TypeOK, ThreadsOK, DataOK, Bounded, StopJoins, Joined, Closed
<1>7. CASE AcceptAsync
  BY <1>7 DEF TypeOK, ThreadsOK, DataOK, Bounded, AcceptAsync, IoRuns, NewConnection
<1>8. CASE AcceptAsyncFails
  BY <1>8 DEF TypeOK, ThreadsOK, DataOK, Bounded, AcceptAsyncFails, IoRuns
<1>9. CASE ReadMessage
  BY <1>9 DEF TypeOK, ThreadsOK, DataOK, Bounded, ReadMessage, IoRuns
<1>10. CASE ReadLost
  BY <1>10 DEF TypeOK, ThreadsOK, DataOK, Bounded, ReadLost, IoRuns, Lost
<1>11. CASE ReadFails
  BY <1>11 DEF TypeOK, ThreadsOK, DataOK, Bounded, ReadFails, IoRuns
<1>12. CASE RunEnds
  BY <1>12 DEF TypeOK, ThreadsOK, DataOK, Bounded, RunEnds, IoRuns
<1>13. CASE Dial
  BY <1>13 DEF TypeOK, ThreadsOK, DataOK, Bounded, Dial
<1>14. ASSUME NEW k \in Commands, Send(k)
      PROVE  DataOK'
  BY <1>14, ServerBoundsAssumption DEF TypeOK, ThreadsOK, DataOK, Bounded, Send
<1>15. CASE Disconnect
  BY <1>15 DEF TypeOK, ThreadsOK, DataOK, Bounded, Disconnect
<1>16. ASSUME NEW w \in WaitModes, StartServer(w)
      PROVE  DataOK'
  BY <1>16 DEF TypeOK, ThreadsOK, DataOK, Bounded, StartServer, is_connected
<1>17. CASE HaltWatchdog
  BY <1>17 DEF TypeOK, ThreadsOK, DataOK, Bounded, HaltWatchdog
<1>18. CASE JoinWatchdog
  BY <1>18 DEF TypeOK, ThreadsOK, DataOK, Bounded, JoinWatchdog, Over
<1>19. CASE JoinCommands
  BY <1>19 DEF TypeOK, ThreadsOK, DataOK, Bounded, JoinCommands, Over
<1>20. CASE StopServer
  BY <1>20 DEF TypeOK, ThreadsOK, DataOK, Bounded, StopServer
<1>21. CASE StopNetwork
  BY <1>21 DEF TypeOK, ThreadsOK, DataOK, Bounded, StopNetwork, Over
<1>22a. CASE Allocates
  BY <1>22a DEF TypeOK, ThreadsOK, DataOK, Bounded, Allocates
<1>22b. CASE LockForAlloc
  BY <1>22b DEF TypeOK, ThreadsOK, DataOK, Bounded, LockForAlloc, Enter
<1>22c. CASE Collects
  BY SMTT(30), <1>22c DEF TypeOK, ThreadsOK, DataOK, Bounded, Collects, Enter
<1>22d. ASSUME NEW k \in {"pass", "search"}, FindPaused(k)
      PROVE  DataOK'
  BY <1>22d DEF TypeOK, ThreadsOK, DataOK, Bounded, FindPaused, Enter
<1>22e. CASE FindRunning
  BY <1>22e DEF TypeOK, ThreadsOK, DataOK, Bounded, FindRunning, Leave
<1>22f. ASSUME NEW k \in {"pass", "search"}, LockForFind(k)
      PROVE  DataOK'
  BY <1>22f DEF TypeOK, ThreadsOK, DataOK, Bounded, LockForFind, Enter
<1>22g. CASE EndFind
  BY <1>22g DEF TypeOK, ThreadsOK, DataOK, Bounded, EndFind, Leave, Unlocked
<1>23. CASE AddAllocation
  BY <1>23 DEF TypeOK, ThreadsOK, DataOK, Bounded, AddAllocation, Leave, Unlocked, Within
<1>24. CASE Collect
  BY <1>24 DEF TypeOK, ThreadsOK, DataOK, Bounded, Collect, Leave, Unlocked, Within
<1>25. ASSUME NEW t \in Users, Dangle(t)
      PROVE  DataOK'
  BY <1>25 DEF TypeOK, ThreadsOK, DataOK, Bounded, Dangle, Leave, Unlocked, Within
<1>26. CASE WorkerTakes
  BY <1>26 DEF TypeOK, ThreadsOK, DataOK, Bounded, WorkerTakes, WorkerRuns, Waiting
<1>27. CASE WorkerIdles
  BY <1>27 DEF TypeOK, ThreadsOK, DataOK, Bounded, WorkerIdles, WorkerRuns, Drained
<1>28. CASE WorkerEnds
  BY <1>28 DEF TypeOK, ThreadsOK, DataOK, Bounded, WorkerEnds, WorkerRuns
<1>29. CASE TakeCommand
  BY <1>29 DEF TypeOK, ThreadsOK, DataOK, Bounded, TakeCommand, Enter
<1>30. ASSUME NEW k \in {"pause", "resume"}, RunCommand(k)
      PROVE  DataOK'
  BY <1>30 DEF TypeOK, ThreadsOK, DataOK, Bounded, RunCommand, Leave, Unlocked, Within
<1>31. CASE CommandsEnd
  BY <1>31 DEF TypeOK, ThreadsOK, DataOK, Bounded, CommandsEnd
<1>32. CASE \/ WatchdogRelistens \/ WatchdogSleeps \/ WatchdogEnds
  BY <1>32 DEF TypeOK, ThreadsOK, DataOK, Bounded, WatchdogRelistens, WatchdogHalted,
     WatchdogSleeps, WatchdogEnds, vars
<1>33. CASE \/ MonoMissing \/ InstallCallbacks \/ CreateWorker \/ StopWorker
               \/ ReplaceWorker
  BY SMTT(30), <1>33 DEF TypeOK, ThreadsOK, DataOK, Bounded, MonoMissing, InstallCallbacks,
     CreateWorker, StopWorker, Retired, ReplaceWorker
<1> QED
  BY <1>1, <1>2, <1>3, <1>4, <1>5, <1>6, <1>7, <1>8, <1>9, <1>10, <1>11, <1>12, <1>13,
     <1>14, <1>15, <1>16, <1>17, <1>18, <1>19, <1>20, <1>21, <1>22a, <1>22b, <1>22c, <1>22d,
     <1>22e, <1>22f, <1>22g, <1>23, <1>24, <1>25,
     <1>26, <1>27, <1>28, <1>29, <1>30, <1>31, <1>32, <1>33 DEF Next, Listen, MainStep,
     WatchdogStep, IoStep, WorkerStep, CommandsStep, AppStep, Environment

(* What callbacks, commands and the worker do ...                          *)
UserStep ==
    \/ WorkerStep \/ CommandsStep \/ AppStep
    \/ Allocates \/ Collects \/ \E t \in Users : Dangle(t)

(* ... leaves the network alone ...                                        *)
LeavesNet == UNCHANGED conn /\ inbox' \in {inbox, Tail(inbox)}

LEMMA UsersLeaveNet ==
    ASSUME UserStep
    PROVE  LeavesNet
<1> USE DEF LeavesNet, conn, msgs, prof
<1>1. CASE WorkerTakes
  BY <1>1 DEF WorkerTakes, WorkerRuns, Waiting
<1>2. CASE WorkerIdles
  BY <1>2 DEF WorkerIdles, WorkerRuns, Drained
<1>3. CASE WorkerEnds
  BY <1>3 DEF WorkerEnds, WorkerRuns
<1>4. CASE TakeCommand
  BY <1>4 DEF TakeCommand, Enter
<1>5. CASE CommandsEnd
  BY <1>5 DEF CommandsEnd
<1>6. ASSUME NEW k \in {"pause", "resume"}, RunCommand(k)
      PROVE  LeavesNet
  BY <1>6 DEF RunCommand, Leave
<1>7. CASE FindRunning
  BY <1>7 DEF FindRunning, Leave
<1>8. CASE EndFind
  BY <1>8 DEF EndFind, Leave
<1>9. ASSUME NEW k \in {"pass", "search"}, FindPaused(k)
      PROVE  LeavesNet
  BY <1>9 DEF FindPaused, Enter
<1>10. ASSUME NEW k \in {"pass", "search"}, LockForFind(k)
      PROVE  LeavesNet
  BY <1>10 DEF LockForFind, Enter
<1>11. CASE LockForAlloc
  BY <1>11 DEF LockForAlloc, Enter
<1>12. CASE AddAllocation
  BY <1>12 DEF AddAllocation, Leave
<1>13. CASE Collect
  BY <1>13 DEF Collect, Leave
<1>14. CASE Allocates
  BY <1>14 DEF Allocates
<1>15. CASE Collects
  BY <1>15 DEF Collects, Enter
<1>16. ASSUME NEW t \in Users, Dangle(t)
      PROVE  LeavesNet
  BY <1>16 DEF Dangle, Leave
<1> QED
  BY <1>1, <1>2, <1>3, <1>4, <1>5, <1>6, <1>7, <1>8, <1>9, <1>10, <1>11, <1>12, <1>13,
     <1>14, <1>15, <1>16
     DEF UserStep, WorkerStep, CommandsStep, AppStep

(* ... and the threads that listen.                                        *)
LeavesListeners ==
    /\ started' = started
    /\ \A t \in Listeners : pc'[t] = pc[t]
    /\ count'["start"] = count["start"]
    /\ worker' \in {worker, "ended"}
    /\ \/ dead' = dead \/ dead' = "dangling"
       \/ dead' = "null" /\ worker = "none"

LEMMA UsersLeaveListeners ==
    ASSUME ServerInv, UserStep
    PROVE  LeavesListeners
<1> USE DEF ServerInv, At, Alive, Goes, Counts, life, prof,
           Listeners, Users, Bounded, TypeOK, ThreadsOK, DataOK, LeavesListeners
<1>1. CASE WorkerTakes
  BY <1>1 DEF WorkerTakes, WorkerRuns, Waiting
<1>2. CASE WorkerIdles
  BY <1>2 DEF WorkerIdles, WorkerRuns, Drained
<1>3. CASE WorkerEnds
  BY <1>3 DEF WorkerEnds, WorkerRuns
<1>4. CASE TakeCommand
  BY <1>4 DEF TakeCommand, Enter
<1>5. CASE CommandsEnd
  BY <1>5 DEF CommandsEnd
<1>6. ASSUME NEW k \in {"pause", "resume"}, RunCommand(k)
      PROVE  LeavesListeners
  BY <1>6 DEF RunCommand, Leave
<1>7. CASE FindRunning
  BY <1>7 DEF FindRunning, Leave
<1>8. CASE EndFind
  BY <1>8 DEF EndFind, Leave
<1>9. ASSUME NEW k \in {"pass", "search"}, FindPaused(k)
      PROVE  LeavesListeners
  BY <1>9 DEF FindPaused, Enter
<1>10. ASSUME NEW k \in {"pass", "search"}, LockForFind(k)
      PROVE  LeavesListeners
  BY <1>10 DEF LockForFind, Enter
<1>11. CASE LockForAlloc
  BY <1>11 DEF LockForAlloc, Enter
<1>12. CASE AddAllocation
  BY <1>12 DEF AddAllocation, Leave
<1>13. CASE Collect
  BY <1>13 DEF Collect, Leave
<1>14. CASE Allocates
  BY <1>14 DEF Allocates
<1>15. CASE Collects
  BY <1>15 DEF Collects, Enter
<1>16. ASSUME NEW t \in Users, Dangle(t)
      PROVE  LeavesListeners
  BY <1>16 DEF Dangle, Leave
<1> QED
  BY <1>1, <1>2, <1>3, <1>4, <1>5, <1>6, <1>7, <1>8, <1>9, <1>10, <1>11, <1>12, <1>13,
     <1>14, <1>15, <1>16
     DEF UserStep, WorkerStep, CommandsStep, AppStep

(* Every action keeps the order of listening.                              *)
LEMMA ListenStep ==
    ASSUME ServerInv, Next
    PROVE  ListenInv'
<1> USE DEF ServerInv, At, Alive, Goes, Counts, life, flags, conn, msgs, prof,
           Listeners, Users, Kinds
<1>1. ASSUME NEW t \in Listeners, ListenThrows(t)
      PROVE  ListenInv'
  BY <1>1 DEF TypeOK, ThreadsOK, ListenInv, ListenThrows
<1>2. ASSUME NEW t \in Listeners, ListenSync(t)
      PROVE  ListenInv'
  BY <1>2 DEF TypeOK, ThreadsOK, ListenInv, ListenSync
<1>3. ASSUME NEW t \in Listeners, ListenAsync(t)
      PROVE  ListenInv'
  BY <1>3 DEF TypeOK, ThreadsOK, ListenInv, ListenAsync, SpawnRun, Listened
<1>4. ASSUME NEW t \in Listeners, AcceptSync(t)
      PROVE  ListenInv'
  BY <1>4 DEF TypeOK, ThreadsOK, ListenInv, AcceptSync, SpawnRun, Listened,
     NewConnection
<1>5. ASSUME NEW t \in Listeners, AcceptSyncFails(t)
      PROVE  ListenInv'
  BY <1>5 DEF TypeOK, ThreadsOK, ListenInv, AcceptSyncFails, SpawnRun, Listened
<1>6. ASSUME NEW t \in Listeners, StopJoins(t)
      PROVE  ListenInv'
  BY <1>6 DEF TypeOK, ThreadsOK, ListenInv, StopJoins, Joined, Closed
<1>7. ASSUME NEW w \in WaitModes, StartServer(w)
      PROVE  ListenInv'
  BY <1>7 DEF TypeOK, ThreadsOK, ListenInv, StartServer, is_connected
<1>8. CASE HaltWatchdog
  BY <1>8 DEF TypeOK, ThreadsOK, ListenInv, HaltWatchdog
<1>9. CASE JoinWatchdog
  BY <1>9 DEF TypeOK, ThreadsOK, ListenInv, JoinWatchdog, Over
<1>10. CASE JoinCommands
  BY <1>10 DEF TypeOK, ThreadsOK, ListenInv, JoinCommands, Over
<1>11. CASE StopServer
  BY <1>11 DEF TypeOK, ThreadsOK, ListenInv, StopServer
<1>12. CASE StopNetwork
  BY <1>12 DEF TypeOK, ThreadsOK, ListenInv, StopNetwork, Over
<1>13. CASE WatchdogRelistens
  BY <1>13 DEF TypeOK, ThreadsOK, ListenInv, WatchdogRelistens, WatchdogHalted
<1>14. CASE WatchdogSleeps
  BY <1>14 DEF TypeOK, ThreadsOK, ListenInv, WatchdogSleeps, vars
<1>15. CASE WatchdogEnds
  BY <1>15 DEF TypeOK, ThreadsOK, ListenInv, WatchdogEnds, WatchdogHalted
<1>16. CASE \/ AcceptAsync \/ AcceptAsyncFails \/ ReadMessage \/ ReadLost \/ ReadFails
               \/ RunEnds
  BY <1>16 DEF TypeOK, ThreadsOK, ListenInv, AcceptAsync, IoRuns, NewConnection,
     AcceptAsyncFails, ReadMessage, ReadLost, Lost, ReadFails, RunEnds
<1>17. CASE \/ Dial \/ Disconnect
            \/ \E k \in Commands : Send(k)
  BY <1>17 DEF TypeOK, ThreadsOK, ListenInv, Dial, Send, Disconnect
<1>18. CASE \/ MonoMissing \/ InstallCallbacks \/ CreateWorker \/ StopWorker
               \/ ReplaceWorker
  BY <1>18 DEF TypeOK, ThreadsOK, ListenInv, MonoMissing, InstallCallbacks,
     CreateWorker, StopWorker, Retired, ReplaceWorker
<1>19. CASE UserStep
  BY <1>19, UsersLeaveNet, UsersLeaveListeners
     DEF LeavesNet, LeavesListeners, ListenInv
<1> QED
  BY <1>1, <1>2, <1>3, <1>4, <1>5, <1>6, <1>7, <1>8, <1>9, <1>10, <1>11, <1>12, <1>13,
     <1>14, <1>15, <1>16, <1>17, <1>18, <1>19 DEF UserStep, Next, Listen, MainStep,
     WatchdogStep,
     IoStep, WorkerStep, CommandsStep, AppStep, Environment

(* Every action keeps what holds before a second start.                    *)
LEMMA StartStep ==
    ASSUME ServerInv, Next
    PROVE  StartInv'
<1> USE DEF ServerInv, At, Alive, Goes, Counts, life, flags, conn, msgs, prof,
           Listeners, Users, Kinds
<1>1. ASSUME NEW t \in Listeners, ListenThrows(t)
      PROVE  StartInv'
  BY <1>1 DEF TypeOK, ThreadsOK, DataOK, ListenInv, StartInv, Bounded, ListenThrows
<1>2. ASSUME NEW t \in Listeners, ListenSync(t)
      PROVE  StartInv'
  BY <1>2 DEF TypeOK, ThreadsOK, DataOK, ListenInv, StartInv, Bounded, ListenSync
<1>3. ASSUME NEW t \in Listeners, ListenAsync(t)
      PROVE  StartInv'
  BY <1>3 DEF TypeOK, ThreadsOK, DataOK, ListenInv, StartInv, Bounded, ListenAsync,
     SpawnRun, Listened
<1>4. ASSUME NEW t \in Listeners, AcceptSync(t)
      PROVE  StartInv'
  BY <1>4 DEF TypeOK, ThreadsOK, DataOK, ListenInv, StartInv, Bounded, AcceptSync,
     SpawnRun, Listened, NewConnection
<1>5. ASSUME NEW t \in Listeners, AcceptSyncFails(t)
      PROVE  StartInv'
  BY <1>5 DEF TypeOK, ThreadsOK, DataOK, ListenInv, StartInv, Bounded, AcceptSyncFails,
     SpawnRun, Listened
<1>6. ASSUME NEW t \in Listeners, StopJoins(t)
      PROVE  StartInv'
  BY <1>6 DEF TypeOK, ThreadsOK, DataOK, ListenInv, StartInv, Bounded, StopJoins,
     Joined, Closed
<1>7. ASSUME NEW w \in WaitModes, StartServer(w)
      PROVE  StartInv'
  BY <1>7 DEF TypeOK, ThreadsOK, DataOK, ListenInv, StartInv, Bounded, StartServer,
     is_connected
<1>8. CASE HaltWatchdog
  BY <1>8 DEF TypeOK, ThreadsOK, DataOK, ListenInv, StartInv, Bounded, HaltWatchdog
<1>9. CASE JoinWatchdog
  BY <1>9 DEF TypeOK, ThreadsOK, DataOK, ListenInv, StartInv, Bounded, JoinWatchdog,
     Over
<1>10. CASE JoinCommands
  BY <1>10 DEF TypeOK, ThreadsOK, DataOK, ListenInv, StartInv, Bounded, JoinCommands,
     Over
<1>11. CASE StopServer
  BY <1>11 DEF TypeOK, ThreadsOK, DataOK, ListenInv, StartInv, Bounded, StopServer
<1>12. CASE StopNetwork
  BY <1>12 DEF TypeOK, ThreadsOK, DataOK, ListenInv, StartInv, Bounded, StopNetwork,
     Over
<1>13. CASE WatchdogRelistens
  BY <1>13 DEF TypeOK, ThreadsOK, DataOK, ListenInv, StartInv, Bounded,
     WatchdogRelistens, WatchdogHalted
<1>14. CASE WatchdogSleeps
  BY <1>14 DEF TypeOK, ThreadsOK, DataOK, ListenInv, StartInv, Bounded, WatchdogSleeps,
     vars
<1>15. CASE WatchdogEnds
  BY <1>15 DEF TypeOK, ThreadsOK, DataOK, ListenInv, StartInv, Bounded, WatchdogEnds,
     WatchdogHalted
<1>16. CASE \/ AcceptAsync \/ AcceptAsyncFails \/ ReadMessage \/ ReadLost \/ ReadFails
               \/ RunEnds
  BY SMTT(30), <1>16 DEF TypeOK, ThreadsOK, DataOK, ListenInv, StartInv, Bounded, AcceptAsync,
     IoRuns, NewConnection, AcceptAsyncFails, ReadMessage, ReadLost, Lost, ReadFails,
     RunEnds
<1>17. CASE \/ Dial \/ Disconnect
            \/ \E k \in Commands : Send(k)
  BY SMTT(30), <1>17 DEF TypeOK, ThreadsOK, DataOK, ListenInv, StartInv, Bounded, Dial, Send,
     Disconnect
<1>18. CASE \/ MonoMissing \/ InstallCallbacks \/ CreateWorker \/ StopWorker
               \/ ReplaceWorker
  BY SMTT(30), <1>18 DEF TypeOK, ThreadsOK, DataOK, ListenInv, StartInv, Bounded, MonoMissing,
     InstallCallbacks, CreateWorker, StopWorker, Retired, ReplaceWorker
<1>19. CASE UserStep
  BY <1>19, UsersLeaveNet, UsersLeaveListeners
     DEF LeavesNet, LeavesListeners, StartInv
<1> QED
  BY <1>1, <1>2, <1>3, <1>4, <1>5, <1>6, <1>7, <1>8, <1>9, <1>10, <1>11, <1>12, <1>13,
     <1>14, <1>15, <1>16, <1>17, <1>18, <1>19 DEF UserStep, Next, Listen, MainStep,
     WatchdogStep,
     IoStep, WorkerStep, CommandsStep, AppStep, Environment

(* Every action keeps the worker.                                          *)
LEMMA WorkerStepInv ==
    ASSUME ServerInv, Next
    PROVE  WorkerInv'
<1> USE DEF ServerInv, At, Alive, Goes, Counts, life, flags, conn, msgs, prof,
           Listeners, Users, Kinds
<1>1. CASE MonoMissing
  BY <1>1 DEF TypeOK, ThreadsOK, WorkerInv, MonoMissing
<1>2. CASE InstallCallbacks
  BY <1>2 DEF TypeOK, ThreadsOK, WorkerInv, InstallCallbacks
<1>3. CASE CreateWorker
  BY <1>3 DEF TypeOK, ThreadsOK, WorkerInv, CreateWorker
<1>4. CASE StopWorker
  BY <1>4 DEF TypeOK, ThreadsOK, WorkerInv, StopWorker, Retired
<1>5. CASE ReplaceWorker
  BY <1>5 DEF TypeOK, ThreadsOK, WorkerInv, ReplaceWorker
<1>6. CASE \/ \E t \in Listeners : ListenThrows(t) \/ ListenSync(t) \/ ListenAsync(t)
              \/ AcceptSync(t) \/ AcceptSyncFails(t) \/ StopJoins(t)
  BY <1>6 DEF TypeOK, ThreadsOK, WorkerInv, ListenThrows, ListenSync, ListenAsync,
     SpawnRun, Listened, AcceptSync, NewConnection, AcceptSyncFails, StopJoins, Joined,
     Closed
<1>7. CASE \/ AcceptAsync \/ AcceptAsyncFails \/ ReadMessage \/ ReadLost \/ ReadFails
              \/ RunEnds
  BY <1>7 DEF TypeOK, ThreadsOK, WorkerInv, AcceptAsync, IoRuns, NewConnection,
     AcceptAsyncFails, ReadMessage, ReadLost, Lost, ReadFails, RunEnds
<1>8. CASE \/ Dial \/ Disconnect
           \/ \E k \in Commands : Send(k)
  BY <1>8 DEF TypeOK, ThreadsOK, WorkerInv, Dial, Send, Disconnect
<1>9. CASE \/ HaltWatchdog \/ JoinWatchdog \/ JoinCommands \/ StopServer \/ StopNetwork
           \/ \E w \in WaitModes : StartServer(w)
  BY <1>9 DEF TypeOK, ThreadsOK, WorkerInv, StartServer, is_connected, HaltWatchdog,
     JoinWatchdog, Over, JoinCommands, StopServer, StopNetwork
<1>10. CASE \/ WatchdogRelistens \/ WatchdogSleeps \/ WatchdogEnds
  BY <1>10 DEF TypeOK, ThreadsOK, WorkerInv, WatchdogRelistens, WatchdogHalted,
     WatchdogSleeps, WatchdogEnds, vars
<1>11. CASE UserStep
  BY <1>11, UsersLeaveNet, UsersLeaveListeners
     DEF LeavesNet, LeavesListeners, WorkerInv
<1> QED
  BY <1>1, <1>2, <1>3, <1>4, <1>5, <1>6, <1>7, <1>8, <1>9, <1>10, <1>11 DEF UserStep, Next,
     Listen, MainStep, WatchdogStep, IoStep, WorkerStep, CommandsStep, AppStep,
     Environment

-----------------------------------------------------------------------------
(* The life of the server keeps its invariant.                             *)
THEOREM ServerInvariant == Spec => []ServerInv
<1>1. Init => ServerInv
  <2> SUFFICES ASSUME Init PROVE ServerInv
    OBVIOUS
  <2>1. ThreadsOK
    BY DEF Init, ThreadsOK, Listeners, Users
  <2>2. FlagsOK
    BY DEF Init, FlagsOK, ServerFlagsOK, NetFlagsOK, ProfilerFlagsOK
  <2>3. DataOK
    BY DEF Init, DataOK
  <2>4. ListenInv
    BY DEF Init, ListenInv, Listeners, Users
  <2>5. StartInv
    BY DEF Init, StartInv, Listeners, Users, Bounded
  <2>6. WorkerInv
    BY DEF Init, WorkerInv
  <2> QED
    BY <2>1, <2>2, <2>3, <2>4, <2>5, <2>6 DEF ServerInv, TypeOK
<1>2. ServerInv /\ UNCHANGED vars => ServerInv'
  BY DEF vars, life, flags, conn, msgs, prof, ServerInv, TypeOK, ThreadsOK, FlagsOK,
     ServerFlagsOK, NetFlagsOK, ProfilerFlagsOK,
         DataOK, ListenInv, StartInv, WorkerInv
<1>3. ServerInv /\ [Next]_vars => ServerInv'
  BY <1>2, ThreadsStep, FlagsStep, DataStep, ListenStep, StartStep, WorkerStepInv
     DEF ServerInv, TypeOK
<1> QED
  BY <1>1, <1>3, PTL DEF Spec

(* Type correctness of the server's life.                                  *)
THEOREM ServerTypeCorrect == Spec => []TypeOK
<1>1. ServerInv => TypeOK
  BY DEF ServerInv
<1> QED
  BY <1>1, ServerInvariant, PTL

(* start, stop and the watchdog never assign m_thread over a thread.       *)
THEOREM ThreadsAreJoined == Spec => []NoThreadOverwritten
<1>1. ServerInv => NoThreadOverwritten
  BY DEF ServerInv, ListenInv, NoThreadOverwritten
<1> QED
  BY <1>1, ServerInvariant, PTL

(* Only a restart opens an acceptor that is open.                          *)
THEOREM OpensOnce == Spec => []OpenedTwiceOnlyByRestart
<1>1. ServerInv => OpenedTwiceOnlyByRestart
  BY DEF ServerInv, StartInv, OpenedTwiceOnlyByRestart
<1> QED
  BY <1>1, ServerInvariant, PTL

(* After the first start no callback and no command misses a worker.       *)
THEOREM WorkerIsThere == Spec => []NullOnlyBeforeStarted
<1>1. ServerInv => NullOnlyBeforeStarted
  BY DEF ServerInv, WorkerInv, NullOnlyBeforeStarted
<1> QED
  BY <1>1, ServerInvariant, PTL

(* network::stop has run: m_stop is set and the thread has left its loop.  *)
Deaf == netStop /\ netThread # "run"

(* Once network::stop has run, no message is ever read again, whoever      *)
(* connects: m_stop is never reset.                                        *)
THEOREM DeafForGood == Spec => [][Deaf => Deaf' /\ inbox' \in {inbox, Tail(inbox)}]_vars
<1>1. ASSUME Next, Deaf
      PROVE  Deaf' /\ inbox' \in {inbox, Tail(inbox)}
  <2> USE DEF Deaf
  <2>1. CASE \/ \E t \in Listeners : ListenThrows(t) \/ ListenSync(t) \/ ListenAsync(t)
                \/ AcceptSync(t) \/ AcceptSyncFails(t) \/ StopJoins(t)
    BY <1>1, <2>1 DEF conn, msgs, ListenThrows, ListenSync, ListenAsync, SpawnRun,
       Listened, AcceptSync, NewConnection, AcceptSyncFails, StopJoins, Joined, Closed
  <2>2. CASE \/ AcceptAsync \/ AcceptAsyncFails \/ ReadMessage \/ ReadLost \/ ReadFails
                \/ RunEnds
    BY <1>1, <2>2 DEF conn, msgs, AcceptAsync, IoRuns, NewConnection, AcceptAsyncFails,
       ReadMessage, ReadLost, Lost, ReadFails, RunEnds
  <2>3. CASE \/ Dial \/ Disconnect \/ HaltWatchdog \/ JoinWatchdog \/ JoinCommands
                \/ StopServer \/ StopNetwork
             \/ \E k \in Commands : Send(k)
             \/ \E w \in WaitModes : StartServer(w)
    BY <1>1, <2>3 DEF conn, msgs, Dial, Send, Disconnect, StartServer, is_connected,
       HaltWatchdog, JoinWatchdog, Over, JoinCommands, StopServer, StopNetwork
  <2>4. CASE \/ WatchdogRelistens \/ WatchdogSleeps \/ WatchdogEnds \/ MonoMissing
                \/ InstallCallbacks \/ CreateWorker \/ StopWorker \/ ReplaceWorker
    BY <1>1, <2>4 DEF conn, msgs, WatchdogRelistens, WatchdogHalted, WatchdogSleeps,
       WatchdogEnds, MonoMissing, InstallCallbacks, CreateWorker, StopWorker, Retired,
       ReplaceWorker, vars
  <2>5. CASE UserStep
    BY <1>1, <2>5, UsersLeaveNet DEF conn, LeavesNet
  <2> QED
    BY <1>1, <2>1, <2>2, <2>3, <2>4, <2>5 DEF UserStep, Next, Listen, MainStep, WatchdogStep,
       IoStep, WorkerStep, CommandsStep, AppStep, Environment, Listeners
<1>2. [Next]_vars => [Deaf => Deaf' /\ inbox' \in {inbox, Tail(inbox)}]_vars
  BY <1>1
<1> QED
  BY <1>2, PTL DEF Spec
=============================================================================
