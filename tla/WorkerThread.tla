---------------------------- MODULE WorkerThread ----------------------------
(***************************************************************************)
(* The server half of the profiler: the callbacks Mono makes on the        *)
(* application's threads (mono_profiler.cpp), the queue they feed, the     *)
(* worker thread that drains it (worker_thread.cpp) and the commands       *)
(* thread that serves the client's find-references, pause and resume       *)
(* requests (mono_profiler_server.cpp).                                    *)
(*                                                                         *)
(* Object contents are abstracted here: which tracked objects a pseudo-GC  *)
(* pass marks is a free choice, because the application writes its memory  *)
(* without taking any of the profiler's locks.  PseudoGC models the pass   *)
(* itself.                                                                 *)
(***************************************************************************)
EXTENDS Integers, Sequences, FiniteSets, Functions

CONSTANTS
    Threads,    \* application threads, on which Mono calls the profiler
    Main,       \* the thread of Threads that calls on_frame
    Addr,       \* addresses of managed objects
    Sizes,      \* object sizes
    MaxFrame,   \* bound on m_frame_index
    MaxAllocs,  \* bound on the number of allocations
    MaxGcs,     \* bound on the number of collections
    MaxCmds     \* bound on the number of client commands

ASSUME ThreadsAssumption ==
    /\ Main \in Threads
    /\ Threads \cap {"none", "worker", "cmd"} = {}

ASSUME SizesAssumption == Sizes \subseteq Nat

ASSUME BoundsAssumption ==
    /\ MaxFrame \in Nat
    /\ MaxAllocs \in Nat
    /\ MaxGcs \in Nat
    /\ MaxCmds \in Nat

VARIABLES
    frame,          \* m_frame_index of mono_profiler
    addAllocMutex,  \* owner of m_add_alloc_mutex
    gcMutex,        \* owner of m_gc_mutex
    paused,         \* m_stop_lock.owns_lock(): the commands thread holds m_stop_mutex
    items,          \* every work_item that ever entered m_work_items, in queue order
    head,           \* how many of them the worker has dequeued
    emptyFlag,      \* m_work_items_empty
    allocations,    \* m_allocations: tracked address -> size
    allocated,      \* m_allocated
    freed,          \* m_freed
    lastGcFrame,    \* m_last_gc_frame
    pc,             \* where each application thread is in its callback
    item,           \* the local work_item of each application thread
    gcFrame,        \* the frame argument of the running do_gc_sync
    todo,           \* unmarked objects the running pass has not swept yet
    wpc,            \* where the worker is in do_work
    cpc,            \* where the commands thread is in its command
    cmdFrame,       \* the frame argument of the running find_references
    heap,           \* addresses of objects that exist in the application
    overlap,        \* threads whose enqueue overlapped another one
    spent,          \* how much of each bound is used up
    balance,        \* history: allocs minus frees reported, per address
    lastReported,   \* history: frame of the last event given to the sink
    lost,           \* history: items dropped by overlapping enqueues
    before          \* history: Len(items) when the running on_gc was entered

locks == <<addAllocMutex, gcMutex, paused>>
queue == <<items, head, emptyFlag, overlap, lost>>
books == <<allocations, allocated, freed, balance, lastReported>>
gcv   == <<gcFrame, todo, before>>
cmdv  == <<cpc, cmdFrame>>
vars  == <<frame, locks, queue, books, lastGcFrame, pc, item, gcv, wpc, cmdv,
           heap, spent>>

-----------------------------------------------------------------------------
AllocPcs == {"alloc_lock", "alloc_stop", "alloc_walk", "alloc_enqueue"}
GcPcs    == {"gc_wait", "gc_lock", "gc_sweep", "gc_enqueue", "gc_return"}
CmdPcs   == {"idle", "pause", "find_lock", "find_check", "find_wait",
             "find_gc_lock", "find_gc", "find_gc_return", "find_read_lock",
             "find_read"}

(* struct work_item.  klass and backtrace matter only in whether the call  *)
(* stack meets the stop-list.                                              *)
WorkItem == [type : {"alloc", "free"}, frame : Nat, addr : Addr,
             size : Nat, stopword : BOOLEAN]

NoItem == [type |-> "none"]

Tracked == DOMAIN allocations

(* Threads inside m_work_items.enqueue.                                    *)
Enqueuing == {t \in Threads : pc[t] \in {"alloc_enqueue", "gc_enqueue"}}

(* Objects whose allocation callback has not returned: their address is on *)
(* the allocating thread's stack.                                          *)
InCallback == {item[t].addr : t \in {u \in Threads : pc[u] \in AllocPcs}}

Init ==
    /\ frame = 0
    /\ addAllocMutex = "none" /\ gcMutex = "none" /\ paused = FALSE
    /\ items = <<>> /\ head = 0 /\ emptyFlag = TRUE
    /\ overlap = {} /\ lost = <<>>
    /\ allocations = [a \in {} |-> 0]
    /\ allocated = 0 /\ freed = 0
    /\ balance = [a \in Addr |-> 0] /\ lastReported = 0
    /\ lastGcFrame = 0
    /\ pc = [t \in Threads |-> "idle"]
    /\ item = [t \in Threads |-> NoItem]
    /\ gcFrame = 0 /\ todo = {} /\ before = 0
    /\ wpc = "top"
    /\ cpc = "idle" /\ cmdFrame = 0
    /\ heap = {}
    /\ spent = [allocs |-> 0, gcs |-> 0, cmds |-> 0]

-----------------------------------------------------------------------------
(* Building blocks of the actions.                                         *)

Goto(t, label) == pc' = [pc EXCEPT ![t] = label]

(* try_dequeue succeeds; the iteration ends by releasing m_gc_mutex.       *)
Dequeue ==
    /\ wpc = "dequeue"
    /\ head < Len(items)
    /\ head' = head + 1
    /\ gcMutex' = "none"
    /\ wpc' = "top"
    /\ UNCHANGED <<frame, addAllocMutex, paused, items, emptyFlag, overlap,
                   lost, lastGcFrame, pc, item, gcv, cmdv, heap, spent>>

Item == items[head + 1]


(* The sink is given allocs and frees of the item's address that change    *)
(* the balance by n, all with the item's frame.                            *)
Report(n) ==
    /\ balance' = [balance EXCEPT ![Item.addr] = @ + n]
    /\ lastReported' = Item.frame

(* A command arrives on the commands thread.                               *)
Command(label) ==
    /\ cpc = "idle"
    /\ spent.cmds < MaxCmds
    /\ spent' = [spent EXCEPT !.cmds = @ + 1]
    /\ cpc' = label

-----------------------------------------------------------------------------
(* Seeded faults: variants of definitions below, each with a plausible     *)
(* slip in the code it stands for.  No action uses them; putting one in    *)
(* the place of its original must break the property it is kept for.       *)

(* The shared lock on m_stop_mutex is released before the enqueue.         *)
StopShared_ScopeEndsEarly == {t \in Threads : pc[t] = "alloc_walk"}

(* on_allocation takes no lock.                                            *)
AddAllocFree_NoMutex == TRUE

(* The sweep queues the free but leaves the entry in m_allocations.        *)
Erase_Forgotten(a) == allocations' = allocations

(* A reallocation frees the size of the new object.                        *)
OldSize_OfNewObject == Item.size

(* A failed try_dequeue does not raise m_work_items_empty.                 *)
WorkerEmpty_NoFlag ==
    /\ wpc = "dequeue"
    /\ head = Len(items)
    /\ wpc' = "yield"
    /\ UNCHANGED <<frame, locks, queue, books, lastGcFrame, pc, item, gcv, cmdv,
                   heap, spent>>

(* The worker goes round its loop without releasing m_gc_mutex.            *)
WorkerYield_KeepsLock ==
    /\ wpc = "yield"
    /\ wpc' = "top"
    /\ UNCHANGED <<frame, locks, queue, books, lastGcFrame, pc, item, gcv, cmdv,
                   heap, spent>>

(* find_references takes m_add_alloc_mutex also when the app is paused.    *)
OnFindReferences_AlwaysLocks ==
    /\ Command("find_lock")
    /\ cmdFrame' = frame
    /\ UNCHANGED <<frame, locks, queue, books, lastGcFrame, pc, item, gcv, wpc,
                   heap>>

(* find_references reads m_allocations without m_gc_mutex.                 *)
FindReadLock_NoLock ==
    /\ cpc = "find_read_lock"
    /\ cpc' = "find_read"
    /\ UNCHANGED <<frame, locks, queue, books, lastGcFrame, pc, item, gcv, wpc,
                   cmdFrame, heap, spent>>

(* find_references returns without releasing m_add_alloc_mutex.            *)
FindDone_KeepsMutex ==
    /\ cpc = "find_read"
    /\ gcMutex' = IF paused THEN gcMutex ELSE "none"
    /\ cmdFrame' = 0
    /\ cpc' = "idle"
    /\ UNCHANGED <<frame, addAllocMutex, paused, queue, books, lastGcFrame, pc,
                   item, gcv, wpc, heap, spent>>

-----------------------------------------------------------------------------
(* Threads that hold m_stop_mutex shared: inside add_allocation_async.     *)
StopShared == {t \in Threads : pc[t] \in {"alloc_walk", "alloc_enqueue"}}

(* m_add_alloc_mutex can be taken.                                         *)
AddAllocFree == addAllocMutex = "none"

(* m_allocations.erase.                                                    *)
Erase(a) == allocations' = [b \in Tracked \ {a} |-> allocations[b]]

(* The size a tracked address was reported with.                           *)
OldSize == allocations[Item.addr]

-----------------------------------------------------------------------------
(* The queue.  All enqueues use the one producer token m_work_items_token. *)
(* The token's sub-queue is FIFO but has room for one writer: two enqueues *)
(* that overlap read the same tail index, so either may overwrite the      *)
(* other or be overwritten.                                                *)

BeginEnqueue(t) ==
    overlap' = IF Enqueuing = {} THEN overlap ELSE overlap \cup Enqueuing \cup {t}

FinishEnqueue(t) ==
    /\ \/ /\ items' = Append(items, item[t])
          /\ lost' = lost
       \/ /\ t \in overlap
          /\ items' = items
          /\ lost' = Append(lost, item[t])
    /\ overlap' = overlap \ {t}
    /\ UNCHANGED <<head, emptyFlag>>

-----------------------------------------------------------------------------
(* mono_profiler::details::on_allocation and                               *)
(* worker_thread::add_allocation_async, on an application thread.          *)

(* Mono has allocated an object at a free address and calls the profiler.  *)
OnAllocation(t) ==
    /\ pc[t] = "idle"
    /\ spent.allocs < MaxAllocs
    /\ \E a \in Addr \ heap, s \in Sizes, sw \in BOOLEAN :
          /\ heap' = heap \cup {a}
          /\ item' = [item EXCEPT ![t] = [type |-> "alloc", frame |-> 0,
                                  addr |-> a, size |-> s, stopword |-> sw]]
    /\ spent' = [spent EXCEPT !.allocs = @ + 1]
    /\ Goto(t, "alloc_lock")
    /\ UNCHANGED <<frame, locks, queue, books, lastGcFrame, gcv, wpc, cmdv>>

(* Takes m_add_alloc_mutex and reads m_frame_index for the call.           *)
LockAddAlloc(t) ==
    /\ pc[t] = "alloc_lock"
    /\ AddAllocFree
    /\ addAllocMutex' = t
    /\ item' = [item EXCEPT ![t].frame = frame]
    /\ Goto(t, "alloc_stop")
    /\ UNCHANGED <<frame, gcMutex, paused, queue, books, lastGcFrame, gcv, wpc,
                   cmdv, heap, spent>>

(* Takes m_stop_mutex shared: blocks while the app is paused.              *)
LockStopShared(t) ==
    /\ pc[t] = "alloc_stop"
    /\ ~paused
    /\ Goto(t, "alloc_walk")
    /\ UNCHANGED <<frame, locks, queue, books, lastGcFrame, item, gcv, wpc,
                   cmdv, heap, spent>>

(* The stack walk is over; the item is on its way into the queue.          *)
BeginAddItem(t) ==
    /\ pc[t] = "alloc_walk"
    /\ BeginEnqueue(t)
    /\ Goto(t, "alloc_enqueue")
    /\ UNCHANGED <<frame, locks, items, head, emptyFlag, lost, books,
                   lastGcFrame, item, gcv, wpc, cmdv, heap, spent>>

(* The item is in the queue; both locks are released on return.            *)
FinishAddItem(t) ==
    /\ pc[t] = "alloc_enqueue"
    /\ FinishEnqueue(t)
    /\ addAllocMutex' = "none"
    /\ item' = [item EXCEPT ![t] = NoItem]
    /\ Goto(t, "idle")
    /\ UNCHANGED <<frame, gcMutex, paused, books, lastGcFrame, gcv, wpc, cmdv,
                   heap, spent>>

(* mono_profiler::on_frame, called from the main thread's managed code.    *)
OnFrame ==
    /\ pc[Main] = "idle"
    /\ frame < MaxFrame
    /\ frame' = frame + 1
    /\ UNCHANGED <<locks, queue, books, lastGcFrame, pc, item, gcv, wpc, cmdv,
                   heap, spent>>

-----------------------------------------------------------------------------
(* mono_profiler::details::on_gc (MONO_GC_EVENT_END) and                   *)
(* worker_thread::do_gc_sync / do_gc_internal with only_update_parents     *)
(* FALSE.  The runtime's collector lock admits one collecting thread.      *)

OnGc(t) ==
    /\ pc[t] = "idle"
    /\ \A u \in Threads : pc[u] \notin GcPcs
    /\ spent.gcs < MaxGcs
    /\ gcFrame' = frame
    /\ before' = Len(items)
    /\ spent' = [spent EXCEPT !.gcs = @ + 1]
    /\ Goto(t, "gc_wait")
    /\ UNCHANGED <<frame, locks, queue, books, lastGcFrame, item, todo, wpc,
                   cmdv, heap>>

(* while (!m_work_items_empty) yield                                       *)
SeeEmpty(t) ==
    /\ pc[t] = "gc_wait"
    /\ emptyFlag
    /\ Goto(t, "gc_lock")
    /\ UNCHANGED <<frame, locks, queue, books, lastGcFrame, item, gcv, wpc,
                   cmdv, heap, spent>>

(* Locks, clears the marks and marks.  Only the set of objects left        *)
(* unmarked matters here.                                                  *)
Mark(t) ==
    /\ pc[t] = "gc_lock"
    /\ gcMutex = "none"
    /\ gcMutex' = t
    /\ \E unmarked \in SUBSET Tracked : todo' = unmarked
    /\ Goto(t, "gc_sweep")
    /\ UNCHANGED <<frame, addAllocMutex, paused, queue, books, lastGcFrame,
                   item, gcFrame, before, wpc, cmdv, heap, spent>>

(* Forget all unmarked objects: a free item for each ...                   *)
BeginSweepOne(t) ==
    /\ pc[t] = "gc_sweep"
    /\ \E a \in todo :
          item' = [item EXCEPT ![t] = [type |-> "free", frame |-> gcFrame,
                      addr |-> a, size |-> allocations[a], stopword |-> FALSE]]
    /\ BeginEnqueue(t)
    /\ Goto(t, "gc_enqueue")
    /\ UNCHANGED <<frame, locks, items, head, emptyFlag, lost, books,
                   lastGcFrame, gcv, wpc, cmdv, heap, spent>>

(* ... and m_allocations.erase.                                            *)
FinishSweepOne(t) ==
    /\ pc[t] = "gc_enqueue"
    /\ FinishEnqueue(t)
    /\ Erase(item[t].addr)
    /\ todo' = todo \ {item[t].addr}
    /\ item' = [item EXCEPT ![t] = NoItem]
    /\ Goto(t, "gc_sweep")
    /\ UNCHANGED <<frame, locks, allocated, freed, balance, lastReported,
                   lastGcFrame, gcFrame, before, wpc, cmdv, heap, spent>>

UnlockGc(t) ==
    /\ pc[t] = "gc_sweep"
    /\ todo = {}
    /\ gcMutex' = "none"
    /\ Goto(t, "gc_return")
    /\ UNCHANGED <<frame, addAllocMutex, paused, queue, books, lastGcFrame,
                   item, gcv, wpc, cmdv, heap, spent>>

(* m_last_gc_frame = frame, after the locks are released.  Once the        *)
(* callback has returned the runtime may hand out again the addresses it   *)
(* collected; objects whose allocation callback is running are on a stack. *)
GcReturn(t) ==
    /\ pc[t] = "gc_return"
    /\ lastGcFrame' = gcFrame
    /\ \E dead \in SUBSET (heap \ InCallback) : heap' = heap \ dead
    /\ gcFrame' = 0 /\ before' = 0
    /\ Goto(t, "idle")
    /\ UNCHANGED <<frame, locks, queue, books, item, todo, wpc, cmdv, spent>>

-----------------------------------------------------------------------------
(* worker_thread::do_work.                                                 *)

WorkerTop ==
    /\ wpc = "top"
    /\ emptyFlag' = FALSE
    /\ wpc' = "lock"
    /\ UNCHANGED <<frame, locks, items, head, overlap, lost, books,
                   lastGcFrame, pc, item, gcv, cmdv, heap, spent>>

WorkerLock ==
    /\ wpc = "lock"
    /\ gcMutex = "none"
    /\ gcMutex' = "worker"
    /\ wpc' = "dequeue"
    /\ UNCHANGED <<frame, addAllocMutex, paused, queue, books, lastGcFrame, pc,
                   item, gcv, cmdv, heap, spent>>

(* try_dequeue fails: raise the flag and yield, still holding the lock.    *)
WorkerEmpty ==
    /\ wpc = "dequeue"
    /\ head = Len(items)
    /\ emptyFlag' = TRUE
    /\ wpc' = "yield"
    /\ UNCHANGED <<frame, locks, items, head, overlap, lost, books,
                   lastGcFrame, pc, item, gcv, cmdv, heap, spent>>

WorkerYield ==
    /\ wpc = "yield"
    /\ gcMutex' = "none"
    /\ wpc' = "top"
    /\ UNCHANGED <<frame, addAllocMutex, paused, queue, books, lastGcFrame, pc,
                   item, gcv, cmdv, heap, spent>>

WorkerFree ==
    /\ Dequeue
    /\ Item.type = "free"
    /\ Report(-1)
    /\ freed' = freed + Item.size
    /\ UNCHANGED <<allocations, allocated>>

(* A stop-word in the call stack: the object is neither tracked nor        *)
(* reported.                                                               *)
WorkerSkip ==
    /\ Dequeue
    /\ Item.type = "alloc" /\ Item.stopword
    /\ UNCHANGED books

WorkerAlloc ==
    /\ Dequeue
    /\ Item.type = "alloc" /\ ~Item.stopword
    /\ Item.addr \notin Tracked
    /\ Report(1)
    /\ allocations' = [a \in Tracked \cup {Item.addr} |->
                          IF a = Item.addr THEN Item.size ELSE allocations[a]]
    /\ allocated' = allocated + Item.size
    /\ UNCHANGED freed

(* Reallocation: the address is already tracked, so the old object is      *)
(* reported freed, with its own size, before the new one.                  *)
WorkerRealloc ==
    /\ Dequeue
    /\ Item.type = "alloc" /\ ~Item.stopword
    /\ Item.addr \in Tracked
    /\ Report(0)
    /\ freed' = freed + OldSize
    /\ allocations' = [allocations EXCEPT ![Item.addr] = Item.size]
    /\ allocated' = allocated + Item.size

-----------------------------------------------------------------------------
(* The commands thread: mono_profiler::pause_app, resume_app and           *)
(* find_references, each of which ends by reporting its answer.            *)

OnPause ==
    /\ Command("pause")
    /\ UNCHANGED <<frame, locks, queue, books, lastGcFrame, pc, item, gcv, wpc,
                   cmdFrame, heap>>

(* Unless it is held already, waits for m_stop_mutex to have no reader.    *)
PauseApp ==
    /\ cpc = "pause"
    /\ paused \/ StopShared = {}
    /\ paused' = TRUE
    /\ cpc' = "idle"
    /\ UNCHANGED <<frame, addAllocMutex, gcMutex, queue, books, lastGcFrame, pc,
                   item, gcv, wpc, cmdFrame, heap, spent>>

ResumeApp ==
    /\ Command("idle")
    /\ paused' = FALSE
    /\ UNCHANGED <<frame, addAllocMutex, gcMutex, queue, books, lastGcFrame, pc,
                   item, gcv, wpc, cmdFrame, heap>>

(* is_paused() decides whether m_add_alloc_mutex is taken.                 *)
OnFindReferences ==
    /\ Command(IF paused THEN "find_check" ELSE "find_lock")
    /\ cmdFrame' = frame
    /\ UNCHANGED <<frame, locks, queue, books, lastGcFrame, pc, item, gcv, wpc,
                   heap>>

FindLock ==
    /\ cpc = "find_lock"
    /\ AddAllocFree
    /\ addAllocMutex' = "cmd"
    /\ cmdFrame' = frame
    /\ cpc' = "find_check"
    /\ UNCHANGED <<frame, gcMutex, paused, queue, books, lastGcFrame, pc, item,
                   gcv, wpc, heap, spent>>

(* Parents are refreshed unless a pass ran in this frame already.          *)
FindCheck ==
    /\ cpc = "find_check"
    /\ cpc' = IF cmdFrame > lastGcFrame THEN "find_wait" ELSE "find_read_lock"
    /\ UNCHANGED <<frame, locks, queue, books, lastGcFrame, pc, item, gcv, wpc,
                   cmdFrame, heap, spent>>

(* do_gc_sync(frame, true): the wait, the locked pass that sweeps nothing, *)
(* and m_last_gc_frame.                                                    *)
FindWait ==
    /\ cpc = "find_wait"
    /\ emptyFlag
    /\ cpc' = "find_gc_lock"
    /\ UNCHANGED <<frame, locks, queue, books, lastGcFrame, pc, item, gcv, wpc,
                   cmdFrame, heap, spent>>

FindGcLock ==
    /\ cpc = "find_gc_lock"
    /\ gcMutex = "none"
    /\ gcMutex' = "cmd"
    /\ cpc' = "find_gc"
    /\ UNCHANGED <<frame, addAllocMutex, paused, queue, books, lastGcFrame, pc,
                   item, gcv, wpc, cmdFrame, heap, spent>>

FindGcUnlock ==
    /\ cpc = "find_gc"
    /\ gcMutex' = "none"
    /\ cpc' = "find_gc_return"
    /\ UNCHANGED <<frame, addAllocMutex, paused, queue, books, lastGcFrame, pc,
                   item, gcv, wpc, cmdFrame, heap, spent>>

FindGcReturn ==
    /\ cpc = "find_gc_return"
    /\ lastGcFrame' = cmdFrame
    /\ cpc' = "find_read_lock"
    /\ UNCHANGED <<frame, locks, queue, books, pc, item, gcv, wpc, cmdFrame,
                   heap, spent>>

(* No lock is taken when the app is paused.                                *)
FindReadLock ==
    /\ cpc = "find_read_lock"
    /\ paused \/ gcMutex = "none"
    /\ gcMutex' = IF paused THEN gcMutex ELSE "cmd"
    /\ cpc' = "find_read"
    /\ UNCHANGED <<frame, addAllocMutex, paused, queue, books, lastGcFrame, pc,
                   item, gcv, wpc, cmdFrame, heap, spent>>

(* find_references_internal has walked m_allocations and reported.         *)
FindDone ==
    /\ cpc = "find_read"
    /\ gcMutex' = IF paused THEN gcMutex ELSE "none"
    /\ addAllocMutex' = IF paused THEN addAllocMutex ELSE "none"
    /\ cmdFrame' = 0
    /\ cpc' = "idle"
    /\ UNCHANGED <<frame, paused, queue, books, lastGcFrame, pc, item, gcv, wpc,
                   heap, spent>>

-----------------------------------------------------------------------------
(* What a thread does once it is inside a callback.                        *)
CallbackStep(t) ==
    \/ LockAddAlloc(t) \/ LockStopShared(t) \/ BeginAddItem(t) \/ FinishAddItem(t)
    \/ SeeEmpty(t) \/ Mark(t) \/ BeginSweepOne(t) \/ FinishSweepOne(t)
    \/ UnlockGc(t) \/ GcReturn(t)

WorkerStep ==
    \/ WorkerTop \/ WorkerLock \/ WorkerEmpty \/ WorkerYield
    \/ WorkerFree \/ WorkerSkip \/ WorkerAlloc \/ WorkerRealloc

CommandStep ==
    \/ PauseApp \/ FindLock \/ FindCheck \/ FindWait \/ FindGcLock
    \/ FindGcUnlock \/ FindGcReturn \/ FindReadLock \/ FindDone

Next ==
    \/ \E t \in Threads : OnAllocation(t) \/ OnGc(t) \/ CallbackStep(t)
    \/ OnFrame
    \/ WorkerStep
    \/ OnPause \/ ResumeApp \/ OnFindReferences
    \/ CommandStep

Spec == Init /\ [][Next]_vars

-----------------------------------------------------------------------------
(* Fairness.  Every thread that can run keeps running.  A thread that      *)
(* again and again finds the mutex it waits for free, or the flag it polls *)
(* raised, sooner or later gets through: strong fairness, because the      *)
(* worker takes and releases m_gc_mutex and lowers and raises              *)
(* m_work_items_empty in every round of its loop.  Nothing is assumed of   *)
(* the steps the application and the client choose to take or not.         *)
Fairness ==
    /\ WF_vars(WorkerStep)
    /\ \A t \in Threads : SF_vars(CallbackStep(t))
    /\ SF_vars(CommandStep)

FairSpec == Spec /\ Fairness

-----------------------------------------------------------------------------
ControlType ==
    /\ frame \in Nat /\ lastGcFrame \in Nat /\ gcFrame \in Nat
    /\ cmdFrame \in Nat
    /\ addAllocMutex \in Threads \cup {"none", "cmd"}
    /\ gcMutex \in Threads \cup {"none", "worker", "cmd"}
    /\ paused \in BOOLEAN /\ emptyFlag \in BOOLEAN
    /\ pc \in [Threads -> {"idle"} \cup AllocPcs \cup GcPcs]
    /\ wpc \in {"top", "lock", "dequeue", "yield"}
    /\ cpc \in CmdPcs
    /\ overlap \subseteq Threads /\ heap \subseteq Addr
    /\ spent \in [allocs : Nat, gcs : Nat, cmds : Nat]

QueueType ==
    /\ items \in Seq(WorkItem) /\ lost \in Seq(WorkItem)
    /\ head \in 0..Len(items) /\ before \in Nat
    /\ item \in [Threads -> WorkItem \cup {NoItem}]

BooksType ==
    /\ Tracked \subseteq Addr /\ todo \subseteq Addr
    /\ allocations \in [Tracked -> Nat]
    /\ allocated \in Nat /\ freed \in Nat
    /\ balance \in [Addr -> Int] /\ lastReported \in Nat

(* Every variable stays in its domain; in particular m_allocated and       *)
(* m_freed are never driven below zero and the queue holds work items.     *)
TypeOK == ControlType /\ QueueType /\ BooksType

(* Free events for an address that are still queued / that were lost.      *)
PendingFrees(a) ==
    {i \in head + 1 .. Len(items) : items[i].type = "free" /\ items[i].addr = a}
LostFrees(a) ==
    {i \in 1 .. Len(lost) : lost[i].type = "free" /\ lost[i].addr = a}

(* The event stream the client receives is balanced: for every address,    *)
(* allocations reported minus frees reported is one if the address is      *)
(* tracked, plus the frees a sweep has queued and do_work has not          *)
(* reported yet, plus those an overlapping enqueue dropped.  No free is    *)
(* ever reported for an object that was not reported allocated, and no     *)
(* tracked object is forgotten without its free being queued, whichever    *)
(* way sweeps, reallocations and the worker loop interleave.               *)
Conservation ==
    \A a \in Addr :
        balance[a] = (IF a \in Tracked THEN 1 ELSE 0)
                     + Cardinality(PendingFrees(a)) + Cardinality(LostFrees(a))

(* All the frees that are queued and not reported yet, and all that were   *)
(* lost; what they and the tracked objects add up to.                      *)
QueuedFrees  == {i \in head + 1 .. Len(items) : items[i].type = "free"}
DroppedFrees == {i \in 1 .. Len(lost) : lost[i].type = "free"}
SizesOf(s)   == [i \in DOMAIN s |-> s[i].size]
TrackedBytes == SumFunctionOnSet(allocations, Tracked)
QueuedBytes  == SumFunctionOnSet(SizesOf(items), QueuedFrees)
DroppedBytes == SumFunctionOnSet(SizesOf(lost), DroppedFrees)

(* m_allocated - m_freed is exactly what is tracked, queued to be freed or *)
(* was dropped: a reallocation frees the size of the old object and a      *)
(* sweep the size the object was reported with (do_work, do_gc_internal).  *)
BytesConserved == allocated - freed = TrackedBytes + QueuedBytes + DroppedBytes

(* m_add_alloc_mutex keeps allocations from different threads in the order *)
(* of their frames: an allocation never enters the queue behind one of a   *)
(* later frame.                                                            *)
AllocFramesInOrder ==
    \A i, j \in 1 .. Len(items) :
        i < j /\ items[i].type = "alloc" /\ items[j].type = "alloc"
            => items[i].frame <= items[j].frame

(* While the app is paused (m_stop_mutex held exclusively) no allocation   *)
(* enters the queue; only sweeps of a collection can still add items.      *)
PauseBlocksAllocations ==
    [][paused /\ paused' =>
          \A i \in Len(items) + 1 .. Len(items') : items'[i].type = "free"]_vars

(* When the app is not paused, find_references_internal walks              *)
(* m_allocations under m_gc_mutex: neither the worker nor a collection     *)
(* changes the map under it.                                               *)
UnpausedReadUndisturbed ==
    [][cpc = "find_read" /\ ~paused => allocations' = allocations]_vars

-----------------------------------------------------------------------------
(* Every collection callback returns: the wait for m_work_items_empty ends *)
(* and the pass gets m_gc_mutex (do_gc_sync).                              *)
GcReturns == \A t \in Threads : pc[t] \in GcPcs ~> pc[t] = "idle"

(* An allocation callback returns unless the client pauses the app.        *)
AllocationReturns ==
    \A t \in Threads : pc[t] \in AllocPcs ~> (pc[t] = "idle" \/ paused)

(* Every client command is answered: the commands thread comes back from   *)
(* pause_app and find_references, also while allocating threads are        *)
(* blocked with m_add_alloc_mutex held.                                    *)
CommandsAnswered == cpc # "idle" ~> cpc = "idle"

(* The worker always gets through what was queued.                         *)
QueueDrained == []<>(head = Len(items))

-----------------------------------------------------------------------------
(* What the code's comments say and its threads do not keep to.            *)

(* worker_thread.cpp: "Wait for all previous allocations to be processed   *)
(* to keep the order of events" - when a pass has the lock, every item     *)
(* that was queued before the collection has been processed.               *)
GcSeesEarlierEvents ==
    \A t \in Threads : pc[t] \in {"gc_sweep", "gc_enqueue"} => head >= before

(* mono_profiler_client.cpp: "Frames should always be sequential" - the    *)
(* frames of the events the sink is given never decrease.                  *)
FramesSequential == [][lastReported' >= lastReported]_vars

(* worker_thread.cpp: "When the app is paused, we don't need any locks" -  *)
(* the map does not change under a reader while the app is paused.         *)
PausedReadUndisturbed ==
    [][cpc = "find_read" /\ paused => allocations' = allocations]_vars

(* worker_thread.h: the token makes "events reported from different treads *)
(* appear in correct sequence" - every enqueued event appears.             *)
NothingLost == lost = <<>>
=============================================================================
