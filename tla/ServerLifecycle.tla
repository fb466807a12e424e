-------------------------- MODULE ServerLifecycle --------------------------
(***************************************************************************)
(* How the server comes up, loses its client, is started again and stops:  *)
(* mono_profiler_server::start and stop on the main thread, the watchdog,  *)
(* the commands thread, the network with its own thread, and the life of   *)
(* the worker object that callbacks and commands use.  What the worker     *)
(* does with an event is in WorkerThread; here an event is only counted.   *)
(***************************************************************************)
EXTENDS Integers, Sequences

CONSTANTS
    WaitModes,    \* the values start is called with for wait_for_connection
    Commands,     \* the commands clients send, of "pause", "resume" and "find"
    MaxStarts,    \* bound on the calls of start
    MaxStops,     \* bound on the calls of stop
    MaxClients,   \* bound on the clients that connect
    MaxCommands,  \* bound on the commands clients send
    MaxCallbacks, \* bound on the callbacks of the application
    MaxFaults,    \* bound on the failures of reads and accepts
    MaxEvents     \* bound on all of these together

ASSUME ServerBoundsAssumption ==
    /\ WaitModes \subseteq BOOLEAN /\ Commands \subseteq {"pause", "resume", "find"}
    /\ MaxStarts \in Nat /\ MaxStops \in Nat /\ MaxClients \in Nat
    /\ MaxCommands \in Nat /\ MaxCallbacks \in Nat /\ MaxFaults \in Nat
    /\ MaxEvents \in Nat

VARIABLES
    pc,         \* where each thread is
    dead,       \* how the process ended, or "no"
    wait,       \* m_wait_for_connection
    haltWatchdog, \* m_stop_watchdog
    haltCommands, \* m_stop_commands_thread
    acceptor,   \* m_acceptor is open
    accepting,  \* an asynchronous accept is under way
    link,       \* m_socket: closed, or open with its peer up or gone
    status,     \* m_connected
    listening,  \* m_listening
    netStop,    \* network::m_stop
    netThread,  \* network::m_thread
    reading,    \* an asynchronous read is under way
    wire,       \* commands sent and not yet read
    inbox,      \* m_read_buffer
    dialing,    \* a client asks for a connection
    started,    \* mono_profiler::m_started
    hooked,     \* the callbacks are installed
    worker,     \* the thread of the worker object, "none" before there is one
    gen,        \* which worker object m_processing_thread points to
    workerStop, \* worker_thread::m_stop
    queued,     \* items in m_work_items
    empty,      \* m_work_items_empty
    paused,     \* m_stop_lock owns its mutex
    user,       \* the worker object a thread is using, 0 outside
    addAlloc,   \* the thread that holds m_add_alloc_mutex, or "none"
    count       \* how often each bounded thing has happened

life == <<pc, dead>>
flags == <<wait, haltWatchdog, haltCommands>>
conn == <<acceptor, accepting, link, status, listening, netStop, netThread, reading>>
msgs == <<wire, inbox, dialing>>
prof == <<started, hooked, worker, gen, workerStop, queued, empty, paused, user, addAlloc>>
vars == <<life, flags, conn, msgs, prof, count>>

Listeners == {"main", "watchdog"}
Users     == {"commands", "app"}
Kinds     == {"pause", "resume", "find"}
Bounded   == {"start", "stop", "client", "command", "callback", "fault"}

Bound(b) ==
    CASE b = "start" -> MaxStarts     [] b = "stop" -> MaxStops
      [] b = "client" -> MaxClients   [] b = "command" -> MaxCommands
      [] b = "callback" -> MaxCallbacks [] b = "fault" -> MaxFaults

Init ==
    /\ pc = [t \in Listeners \cup Users |-> IF t \in {"main", "app"} THEN "idle" ELSE "none"]
    /\ dead = "no"
    /\ wait = FALSE /\ haltWatchdog = FALSE /\ haltCommands = FALSE
    /\ acceptor = FALSE /\ accepting = FALSE /\ link = "none" /\ status = "init"
    /\ listening = FALSE /\ netStop = FALSE /\ netThread = "none" /\ reading = FALSE
    /\ wire = <<>> /\ inbox = <<>> /\ dialing = FALSE
    /\ started = FALSE /\ hooked = FALSE /\ worker = "none" /\ gen = 0
    /\ workerStop = FALSE /\ queued = 0 /\ empty = TRUE /\ paused = FALSE
    /\ user = [t \in Users |-> 0] /\ addAlloc = "none"
    /\ count = [b \in Bounded |-> 0]

Alive == dead = "no"
At(t, here) == Alive /\ pc[t] = here
Goes(t, there) == pc' = [pc EXCEPT ![t] = there]

Happened ==
    count["start"] + count["stop"] + count["client"] + count["command"] + count["callback"]
        + count["fault"]

Counts(b) ==
    /\ count[b] < Bound(b) /\ Happened < MaxEvents
    /\ count' = [count EXCEPT ![b] = @ + 1]

is_connected == link # "none" /\ status = "connected"
is_listening == acceptor /\ listening

-----------------------------------------------------------------------------
(* Seeded faults: variants of definitions below, each with a plausible     *)
(* slip in the code it stands for.  No action uses them.                   *)

(* network::stop does not join its thread.                                 *)
Joined_Kept(t) == t

(* network::stop leaves the acceptor open.                                 *)
Closed_Open(b) == b

(* A lost connection is not recorded.                                      *)
Lost_Ignored(s) == s

(* restart destroys the old worker before it makes the new one.            *)
Retired_Reset(w) == "none"


(* find_references takes m_add_alloc_mutex without asking is_paused.       *)
Sees_Running(b) == b = FALSE

-----------------------------------------------------------------------------
(* The m_thread of a network that has been stopped can be assigned again.  *)
Joined(t) == "none"

(* m_acceptor.close()                                                      *)
Closed(b) == FALSE

(* set_disconnected_status for eof, connection_reset, connection_aborted   *)
Lost(s) == "disconnected"

(* The old worker's thread has been told to end.                           *)
Retired(w) == w

(* m_work_items_empty after a round that found nothing                     *)
Drained(e) == TRUE

(* m_work_items.try_dequeue                                                *)
Waiting == queued > 0

(* while (!m_stop_watchdog)                                                *)
WatchdogHalted == haltWatchdog

-----------------------------------------------------------------------------
(* The network.  The accept of a second connection into an open acceptor   *)
(* throws; so does, by terminating, a thread assigned to a joinable one.   *)

(* m_thread = std::thread(run): run looks at m_stop first.                 *)
SpawnRun ==
    /\ netThread' = IF netThread # "none" THEN netThread
                    ELSE IF netStop THEN "ended" ELSE "run"
    /\ dead' = IF netThread # "none" THEN "terminate" ELSE dead

(* Where a thread that has called listen goes on.                          *)
Listened(t) == Goes(t, IF t = "main" THEN "halt" ELSE "check")

ListenThrows(t) ==
    /\ At(t, "listen")
    /\ acceptor
    /\ listening' = TRUE
    /\ dead' = "open"
    /\ UNCHANGED <<pc, flags, acceptor, accepting, link, status, netStop, netThread,
                   reading, msgs, prof, count>>

(* listen_sync blocks in accept.                                           *)
ListenSync(t) ==
    /\ At(t, "listen")
    /\ ~acceptor /\ wait
    /\ listening' = TRUE /\ acceptor' = TRUE
    /\ Goes(t, "accept")
    /\ UNCHANGED <<dead, flags, accepting, link, status, netStop, netThread, reading, msgs,
                   prof, count>>

ListenAsync(t) ==
    /\ At(t, "listen")
    /\ ~acceptor /\ ~wait
    /\ listening' = TRUE /\ acceptor' = TRUE /\ accepting' = TRUE
    /\ SpawnRun
    /\ Listened(t)
    /\ UNCHANGED <<flags, link, status, netStop, reading, msgs, prof, count>>

(* on_new_connection without an error                                      *)
NewConnection ==
    /\ dialing /\ dialing' = FALSE
    /\ status' = "connected" /\ listening' = FALSE
    /\ link' = "up" /\ reading' = TRUE

AcceptSync(t) ==
    /\ At(t, "accept")
    /\ NewConnection
    /\ SpawnRun
    /\ Listened(t)
    /\ UNCHANGED <<flags, acceptor, accepting, netStop, wire, inbox, prof, count>>

(* on_new_connection with an error: m_listening stays set.                 *)
AcceptSyncFails(t) ==
    /\ At(t, "accept")
    /\ Counts("fault")
    /\ status' = "disconnected"
    /\ SpawnRun
    /\ Listened(t)
    /\ UNCHANGED <<flags, acceptor, accepting, link, listening, netStop, reading, msgs, prof>>

IoRuns == Alive /\ netThread = "run"

AcceptAsync ==
    /\ IoRuns
    /\ accepting /\ accepting' = FALSE
    /\ NewConnection
    /\ UNCHANGED <<life, flags, acceptor, netStop, netThread, wire, inbox, prof, count>>

AcceptAsyncFails ==
    /\ IoRuns
    /\ accepting /\ accepting' = FALSE
    /\ Counts("fault")
    /\ status' = "disconnected"
    /\ UNCHANGED <<life, flags, acceptor, link, listening, netStop, netThread, reading, msgs,
                   prof>>

(* on_header_read and on_body_read: a whole message.                       *)
ReadMessage ==
    /\ IoRuns /\ reading
    /\ wire # <<>>
    /\ inbox' = Append(inbox, Head(wire)) /\ wire' = Tail(wire)
    /\ UNCHANGED <<life, flags, conn, dialing, prof, count>>

(* The peer is gone: the read ends with one of the three error codes ...   *)
ReadLost ==
    /\ IoRuns /\ reading
    /\ link = "closed" /\ wire = <<>>
    /\ reading' = FALSE
    /\ status' = Lost(status)
    /\ UNCHANGED <<life, flags, acceptor, accepting, link, listening, netStop, netThread,
                   msgs, prof, count>>

(* ... or with another one, at any time: nothing is read any more, and the *)
(* connection still counts as connected.                                   *)
ReadFails ==
    /\ IoRuns /\ reading
    /\ Counts("fault")
    /\ reading' = FALSE
    /\ UNCHANGED <<life, flags, acceptor, accepting, link, status, listening, netStop,
                   netThread, msgs, prof>>

(* run leaves its loop.                                                    *)
RunEnds ==
    /\ IoRuns /\ netStop
    /\ netThread' = "ended"
    /\ UNCHANGED <<life, flags, acceptor, accepting, link, status, listening, netStop,
                   reading, msgs, prof, count>>

(* stop, after it has set m_stop: join, close both sockets.  m_stop and    *)
(* m_listening stay as they are.                                           *)
StopJoins(t) ==
    /\ At(t, "joinNet")
    /\ netThread # "run"
    /\ netThread' = Joined(netThread)
    /\ acceptor' = Closed(acceptor) /\ accepting' = FALSE
    /\ link' = "none" /\ reading' = FALSE /\ wire' = <<>>
    /\ status' = "init"
    /\ Goes(t, IF t = "main" THEN "idle" ELSE "listen")
    /\ UNCHANGED <<dead, flags, listening, netStop, inbox, dialing, prof, count>>

-----------------------------------------------------------------------------
(* The clients.                                                            *)

Dial ==
    /\ Alive /\ ~dialing
    /\ Counts("client")
    /\ dialing' = TRUE
    /\ UNCHANGED <<life, flags, conn, wire, inbox, prof>>

Send(k) ==
    /\ Alive /\ link = "up"
    /\ Counts("command")
    /\ wire' = Append(wire, k)
    /\ UNCHANGED <<life, flags, conn, inbox, dialing, prof>>

Disconnect ==
    /\ Alive /\ link = "up"
    /\ link' = "closed"
    /\ UNCHANGED <<life, flags, acceptor, accepting, status, listening, netStop, netThread,
                   reading, msgs, prof, count>>

-----------------------------------------------------------------------------
(* start and stop of the server, on the main thread.                       *)

StartServer(w) ==
    /\ At("main", "idle")
    /\ Counts("start")
    /\ wait' = w
    /\ Goes("main", IF is_connected THEN "halt" ELSE "listen")
    /\ UNCHANGED <<dead, haltWatchdog, haltCommands, conn, msgs, prof>>

HaltWatchdog ==
    /\ At("main", "halt")
    /\ haltWatchdog' = TRUE
    /\ Goes("main", "joinWatchdog")
    /\ UNCHANGED <<dead, wait, haltCommands, conn, msgs, prof, count>>

Over(t) == pc[t] \in {"none", "ended"}

JoinWatchdog ==
    /\ At("main", "joinWatchdog") /\ Over("watchdog")
    /\ haltWatchdog' = FALSE /\ haltCommands' = TRUE
    /\ pc' = [pc EXCEPT !["main"] = "joinCommands", !["watchdog"] = "none"]
    /\ UNCHANGED <<dead, wait, conn, msgs, prof, count>>

(* Both threads are started, and only then the profiler.                   *)
JoinCommands ==
    /\ At("main", "joinCommands") /\ Over("commands")
    /\ haltCommands' = FALSE
    /\ pc' = [pc EXCEPT !["main"] = "profiler", !["watchdog"] = "check",
                        !["commands"] = "poll"]
    /\ UNCHANGED <<dead, wait, haltWatchdog, conn, msgs, prof, count>>

StopServer ==
    /\ At("main", "idle")
    /\ Counts("stop")
    /\ haltWatchdog' = TRUE
    /\ Goes("main", "joinForStop")
    /\ UNCHANGED <<dead, wait, haltCommands, conn, msgs, prof>>

StopNetwork ==
    /\ At("main", "joinForStop") /\ Over("watchdog")
    /\ netStop' = TRUE
    /\ pc' = [pc EXCEPT !["main"] = "joinNet", !["watchdog"] = "none"]
    /\ UNCHANGED <<dead, flags, acceptor, accepting, link, status, listening, netThread,
                   reading, msgs, prof, count>>

(* The watchdog: stop the network and listen again.                        *)
WatchdogRelistens ==
    /\ At("watchdog", "check") /\ ~WatchdogHalted
    /\ ~is_connected /\ ~is_listening
    /\ netStop' = TRUE
    /\ Goes("watchdog", "joinNet")
    /\ UNCHANGED <<dead, flags, acceptor, accepting, link, status, listening, netThread,
                   reading, msgs, prof, count>>

WatchdogSleeps ==
    /\ At("watchdog", "check") /\ ~WatchdogHalted
    /\ is_connected \/ is_listening
    /\ UNCHANGED vars

WatchdogEnds ==
    /\ At("watchdog", "check") /\ WatchdogHalted
    /\ Goes("watchdog", "ended")
    /\ UNCHANGED <<dead, flags, conn, msgs, prof, count>>

-----------------------------------------------------------------------------
(* mono_profiler::start.                                                   *)

(* Mono's library or one of its functions is missing.                      *)
MonoMissing ==
    /\ At("main", "profiler") /\ ~started
    /\ Goes("main", "idle")
    /\ UNCHANGED <<dead, flags, conn, msgs, prof, count>>

(* init installs the callbacks ...                                         *)
InstallCallbacks ==
    /\ At("main", "profiler") /\ ~started
    /\ hooked' = TRUE
    /\ Goes("main", "create")
    /\ UNCHANGED <<dead, flags, conn, msgs, started, worker, gen, workerStop, queued, empty,
                   paused, user, addAlloc, count>>

(* ... and makes the worker they use.                                      *)
CreateWorker ==
    /\ At("main", "create")
    /\ worker' = "run" /\ gen' = gen + 1
    /\ started' = TRUE
    /\ Goes("main", "idle")
    /\ UNCHANGED <<dead, flags, conn, msgs, hooked, workerStop, queued, empty, paused, user,
                   addAlloc, count>>

(* try_restart_profiling: worker_thread::stop lifts a pause and waits ...  *)
StopWorker ==
    /\ At("main", "profiler") /\ started
    /\ paused' = FALSE /\ workerStop' = TRUE
    /\ worker' = Retired(worker)
    /\ Goes("main", "joinWorker")
    /\ UNCHANGED <<dead, flags, conn, msgs, started, hooked, gen, queued, empty, user, addAlloc, count>>

(* ... and a new object takes the place of the old one.                    *)
ReplaceWorker ==
    /\ At("main", "joinWorker") /\ worker # "run"
    /\ worker' = "run" /\ gen' = gen + 1
    /\ workerStop' = FALSE /\ queued' = 0 /\ empty' = TRUE /\ paused' = FALSE
    /\ Goes("main", "idle")
    /\ UNCHANGED <<dead, flags, conn, msgs, started, hooked, user, addAlloc, count>>

-----------------------------------------------------------------------------
(* The worker and its users.                                               *)

(* A thread reads m_processing_thread and enters the object, if any.       *)
Enter(t, there) ==
    IF worker = "none"
    THEN dead' = "null" /\ UNCHANGED <<pc, user>>
    ELSE Goes(t, there) /\ user' = [user EXCEPT ![t] = gen] /\ UNCHANGED dead

(* ... and leaves it.                                                      *)
Leave(t, there) == Goes(t, there) /\ user' = [user EXCEPT ![t] = 0]

(* The mutex belongs to the profiler and not to a worker: it survives a    *)
(* restart, with its owner.                                                *)
Unlocked(t) == IF addAlloc = t THEN "none" ELSE addAlloc

(* on_allocation takes m_add_alloc_mutex before it looks for the worker ... *)
Allocates ==
    /\ At("app", "idle") /\ hooked
    /\ Counts("callback")
    /\ Goes("app", "lockAlloc")
    /\ UNCHANGED <<dead, flags, conn, msgs, prof>>

LockForAlloc ==
    /\ At("app", "lockAlloc")
    /\ addAlloc = "none" /\ addAlloc' = "app"
    /\ Enter("app", "alloc")
    /\ UNCHANGED <<flags, conn, msgs, started, hooked, worker, gen, workerStop, queued, empty,
                   paused, count>>

(* ... and on_gc goes straight to it.                                      *)
Collects ==
    /\ At("app", "idle") /\ hooked
    /\ Counts("callback")
    /\ Enter("app", "gc")
    /\ UNCHANGED <<flags, conn, msgs, started, hooked, worker, gen, workerStop, queued, empty,
                   paused, addAlloc>>

Inside(t) == user[t] = gen

(* add_allocation_async waits while the application is paused, with the    *)
(* mutex of on_allocation.                                                 *)
AddAllocation ==
    /\ At("app", "alloc") /\ Inside("app")
    /\ ~paused
    /\ queued' = queued + 1
    /\ addAlloc' = Unlocked("app")
    /\ Leave("app", "idle")
    /\ UNCHANGED <<dead, flags, conn, msgs, started, hooked, worker, gen, workerStop, empty,
                   paused, count>>

(* do_gc_sync waits for m_work_items_empty.                                *)
Collect ==
    /\ At("app", "gc") /\ Inside("app")
    /\ empty
    /\ Leave("app", "idle")
    /\ UNCHANGED <<dead, flags, conn, msgs, started, hooked, worker, gen, workerStop, queued,
                   empty, paused, addAlloc, count>>

(* Where a thread is in a function of the worker.                          *)
Within == {"find", "pause", "resume", "pass", "search", "alloc", "gc"}

(* The object a thread is in has been destroyed: the process ends, or the  *)
(* thread gets away with it, or it waits for ever, with the mutex it has.  *)
(* Only is_paused of find_references does not wait (see Sees).             *)
Dangle(t) ==
    /\ Alive /\ pc[t] \in Within /\ ~Inside(t)
    /\ \/ dead' = "dangling" /\ UNCHANGED <<pc, user, addAlloc>>
       \/ /\ pc[t] # "find"
          /\ Leave(t, IF t = "app" THEN "idle" ELSE "poll")
          /\ addAlloc' = Unlocked(t)
          /\ UNCHANGED dead
    /\ UNCHANGED <<flags, conn, msgs, started, hooked, worker, gen, workerStop, queued, empty,
                   paused, count>>

WorkerRuns == Alive /\ worker = "run"

WorkerTakes ==
    /\ WorkerRuns /\ ~workerStop
    /\ Waiting
    /\ queued' = queued - 1 /\ empty' = FALSE
    /\ UNCHANGED <<life, flags, conn, msgs, started, hooked, worker, gen, workerStop, paused,
                   user, addAlloc, count>>

WorkerIdles ==
    /\ WorkerRuns /\ ~workerStop
    /\ ~Waiting
    /\ empty' = Drained(empty)
    /\ UNCHANGED <<life, flags, conn, msgs, started, hooked, worker, gen, workerStop, queued,
                   paused, user, addAlloc, count>>

(* do_work ends: the queue is cleared, m_work_items_empty is left alone.   *)
WorkerEnds ==
    /\ WorkerRuns /\ workerStop
    /\ worker' = "ended" /\ queued' = 0
    /\ UNCHANGED <<life, flags, conn, msgs, started, hooked, gen, workerStop, empty, paused,
                   user, addAlloc, count>>

-----------------------------------------------------------------------------
(* The commands thread: process_messages of the server.                    *)

TakeCommand ==
    /\ At("commands", "poll") /\ ~haltCommands
    /\ inbox # <<>>
    /\ inbox' = Tail(inbox)
    /\ Enter("commands", Head(inbox))
    /\ UNCHANGED <<flags, conn, wire, dialing, started, hooked, worker, gen, workerStop,
                   queued, empty, paused, addAlloc, count>>

(* pause_app and resume_app of the worker                                  *)
RunCommand(k) ==
    /\ At("commands", k) /\ Inside("commands")
    /\ paused' = (k = "pause")
    /\ Leave("commands", "poll")
    /\ UNCHANGED <<dead, flags, conn, msgs, started, hooked, worker, gen, workerStop, queued,
                   empty, addAlloc, count>>

(* What is_paused answers: anything, when the worker has been destroyed.   *)
Sees(b) == Inside("commands") => b = paused

(* find_references of a paused application takes no mutex; it asks for the *)
(* worker once more.  The worker starts with a pass, which waits for       *)
(* m_work_items_empty, unless a collection has run in the current frame.   *)
FindPaused(k) ==
    /\ At("commands", "find") /\ Sees(TRUE)
    /\ Enter("commands", k)
    /\ UNCHANGED <<flags, conn, msgs, started, hooked, worker, gen, workerStop, queued, empty,
                   paused, addAlloc, count>>

(* Otherwise it takes m_add_alloc_mutex ...                                *)
FindRunning ==
    /\ At("commands", "find") /\ Sees(FALSE)
    /\ Leave("commands", "lockFind")
    /\ UNCHANGED <<dead, flags, conn, msgs, started, hooked, worker, gen, workerStop, queued,
                   empty, paused, addAlloc, count>>

LockForFind(k) ==
    /\ At("commands", "lockFind")
    /\ addAlloc = "none" /\ addAlloc' = "commands"
    /\ Enter("commands", k)
    /\ UNCHANGED <<flags, conn, msgs, started, hooked, worker, gen, workerStop, queued, empty,
                   paused, count>>

(* ... and keeps it to the end of the search.                              *)
EndFind ==
    /\ \/ At("commands", "pass") /\ empty
       \/ At("commands", "search")
    /\ Inside("commands")
    /\ addAlloc' = Unlocked("commands")
    /\ Leave("commands", "poll")
    /\ UNCHANGED <<dead, flags, conn, msgs, started, hooked, worker, gen, workerStop, queued,
                   empty, paused, count>>

CommandsEnd ==
    /\ At("commands", "poll") /\ haltCommands
    /\ Goes("commands", "ended")
    /\ UNCHANGED <<dead, flags, conn, msgs, prof, count>>

-----------------------------------------------------------------------------
Listen(t) ==
    ListenThrows(t) \/ ListenSync(t) \/ ListenAsync(t) \/ AcceptSync(t) \/ StopJoins(t)

MainStep ==
    \/ Listen("main") \/ HaltWatchdog \/ JoinWatchdog \/ JoinCommands \/ StopNetwork
    \/ MonoMissing \/ InstallCallbacks \/ CreateWorker \/ StopWorker \/ ReplaceWorker
WatchdogStep ==
    Listen("watchdog") \/ WatchdogRelistens \/ WatchdogSleeps \/ WatchdogEnds
IoStep       == AcceptAsync \/ ReadMessage \/ ReadLost \/ RunEnds
WorkerStep   == WorkerTakes \/ WorkerIdles \/ WorkerEnds
CommandsStep ==
    \/ TakeCommand \/ CommandsEnd \/ \E k \in {"pause", "resume"} : RunCommand(k)
    \/ FindRunning \/ EndFind
    \/ \E k \in {"pass", "search"} : FindPaused(k) \/ LockForFind(k)
AppStep      == LockForAlloc \/ AddAllocation \/ Collect

(* What clients, the application and failures may do at any time.          *)
Environment ==
    \/ \E w \in WaitModes : StartServer(w)
    \/ StopServer
    \/ Dial \/ Disconnect \/ \E k \in Commands : Send(k)
    \/ Allocates \/ Collects
    \/ \E t \in Listeners : AcceptSyncFails(t)
    \/ AcceptAsyncFails \/ ReadFails
    \/ \E t \in Users : Dangle(t)

Next ==
    \/ MainStep \/ WatchdogStep \/ IoStep \/ WorkerStep \/ CommandsStep \/ AppStep
    \/ Environment

Spec == Init /\ [][Next]_vars

(* The threads of the process keep running.                                *)
FairSpec ==
    /\ Spec
    /\ WF_vars(MainStep) /\ WF_vars(WatchdogStep) /\ WF_vars(IoStep)
    /\ WF_vars(WorkerStep) /\ WF_vars(CommandsStep) /\ WF_vars(AppStep)

-----------------------------------------------------------------------------
(* Properties.                                                             *)

(* Type invariant: where threads are, flags, everything else.              *)
ThreadsOK ==
    /\ pc["main"] \in {"idle", "listen", "accept", "halt", "joinWatchdog", "joinCommands",
                       "profiler", "create", "joinWorker", "joinForStop", "joinNet"}
    /\ pc["watchdog"] \in {"none", "check", "joinNet", "listen", "accept", "ended"}
    /\ pc["commands"] \in {"none", "poll", "ended", "lockFind", "pass", "search"} \cup Kinds
    /\ pc["app"] \in {"idle", "lockAlloc", "alloc", "gc"}
    /\ DOMAIN pc = Listeners \cup Users
    /\ dead \in {"no", "open", "terminate", "null", "dangling"}
    /\ netThread \in {"none", "run", "ended"} /\ worker \in {"none", "run", "ended"}
    /\ addAlloc \in {"none"} \cup Users
ServerFlagsOK == wait \in BOOLEAN /\ haltWatchdog \in BOOLEAN /\ haltCommands \in BOOLEAN
NetFlagsOK ==
    /\ acceptor \in BOOLEAN /\ accepting \in BOOLEAN /\ listening \in BOOLEAN
    /\ netStop \in BOOLEAN /\ reading \in BOOLEAN /\ dialing \in BOOLEAN
ProfilerFlagsOK ==
    /\ started \in BOOLEAN /\ hooked \in BOOLEAN /\ workerStop \in BOOLEAN
    /\ empty \in BOOLEAN /\ paused \in BOOLEAN
FlagsOK == ServerFlagsOK /\ NetFlagsOK /\ ProfilerFlagsOK
DataOK ==
    /\ link \in {"none", "up", "closed"}
    /\ status \in {"init", "connected", "disconnected"}
    /\ wire \in Seq(Kinds) /\ inbox \in Seq(Kinds)
    /\ gen \in Nat /\ queued \in Nat
    /\ user \in [Users -> Nat] /\ count \in [Bounded -> Nat]
TypeOK == ThreadsOK /\ FlagsOK /\ DataOK

(* A network thread is never assigned over one that has not been joined,   *)
(* whichever of start, stop and the watchdog listens.                      *)
NoThreadOverwritten == dead # "terminate"

(* Without a second call of start the watchdog and start never open an     *)
(* acceptor that is open.                                                  *)
OpenedTwiceOnlyByRestart == dead = "open" => count["start"] > 1

(* A callback or a command only meets a missing worker before the first    *)
(* start has come to its end; a restart never leaves them without one.     *)
NullOnlyBeforeStarted == dead = "null" => ~started

(* Someone waits for a client to connect.                                  *)
Accepting == accepting \/ \E t \in Listeners : pc[t] = "accept"

(* A thread uses a destroyed worker.                                       *)
Dangling == \E t \in Users : pc[t] \in Within /\ ~Inside(t)

(* A call of start or stop comes to its end, for all the threads it joins, *)
(* unless it waits for a client.                                           *)
StartReturns ==
    (pc["main"] # "idle")
        ~> (pc["main"] = "idle" \/ ~Alive \/ Accepting \/ Dangling)

(* The loss of the first connection brings the server back to listening,   *)
(* if the read reports it and nobody stops the server.                     *)
FirstLossNoticed ==
    (link = "closed" /\ ~netStop)
        ~> (Accepting \/ ~Alive \/ count["fault"] > 0 \/ count["stop"] > 0)

(* When a callback may wait for ever: an allocation while the application  *)
(* is paused, a collection on a worker that has been told to end, any of   *)
(* the two in a destroyed worker, and an allocation on the worker of today *)
(* if a search is still in the one before it, with m_add_alloc_mutex.      *)
Stranded ==
    \/ pc["app"] = "alloc" /\ (paused \/ ~Inside("app"))
    \/ pc["app"] = "gc" /\ (workerStop \/ ~Inside("app"))
    \/ /\ pc["app"] = "lockAlloc" /\ addAlloc = "commands"
       /\ pc["commands"] \in {"pass", "search"} /\ ~Inside("commands")


(* Every loss of a connection brings the server back to listening.         *)
Relistens == (link = "closed") ~> (Accepting \/ ~Alive)
=============================================================================
