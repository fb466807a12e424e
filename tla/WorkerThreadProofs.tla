------------------------- MODULE WorkerThreadProofs -------------------------
(***************************************************************************)
(* Proofs that WorkerThread keeps its books balanced, its allocations in   *)
(* frame order, its pauses tight and its locked readers undisturbed, for   *)
(* any number of threads, addresses, sizes and operations.                 *)
(***************************************************************************)
EXTENDS WorkerThread, SumTheorems

(* Who holds which mutex at which program point.                           *)
LockInv ==
    /\ \A t \in Threads :
          /\ pc[t] \in {"alloc_stop", "alloc_walk", "alloc_enqueue"}
                => addAllocMutex = t
          /\ pc[t] \in {"gc_sweep", "gc_enqueue"} => gcMutex = t
          /\ pc[t] \in {"alloc_walk", "alloc_enqueue"} => ~paused
    /\ wpc \in {"dequeue", "yield"} => gcMutex = "worker"
    /\ cpc = "find_gc" => gcMutex = "cmd"
    /\ cpc = "find_read" /\ ~paused => gcMutex = "cmd"
    /\ cpc \in {"find_check", "find_wait", "find_gc_lock", "find_gc",
                "find_gc_return", "find_read_lock", "find_read"} /\ ~paused
          => addAllocMutex = "cmd"
    /\ cpc = "find_lock" => ~paused

(* What a thread's local work item is while it is in a callback.           *)
ItemInv ==
    \A t \in Threads :
        /\ pc[t] \in AllocPcs => item[t] \in WorkItem /\ item[t].type = "alloc"
        /\ pc[t] = "gc_enqueue" => /\ item[t] \in WorkItem
                                   /\ item[t].type = "free"
                                   /\ item[t].addr \in todo

(* A running sweep only has tracked objects left to forget.                *)
SweepInv ==
    \A t \in Threads : pc[t] \in {"gc_sweep", "gc_enqueue"} => todo \subseteq Tracked

(* The allocation about to be queued is not older than any queued one, and *)
(* none is newer than the current frame.                                   *)
FrameInv ==
    /\ \A i \in 1 .. Len(items) : items[i].type = "alloc" => items[i].frame <= frame
    /\ \A t \in Threads :
          pc[t] \in {"alloc_stop", "alloc_walk", "alloc_enqueue"} =>
              /\ item[t].frame <= frame
              /\ \A i \in 1 .. Len(items) :
                    items[i].type = "alloc" => items[i].frame <= item[t].frame

(* The free a sweep is about to queue has the size the object was reported *)
(* with, and m_allocations is finite.                                      *)
BytesInv ==
    /\ IsFiniteSet(Tracked)
    /\ \A t \in Threads : pc[t] = "gc_enqueue" => item[t].size = allocations[item[t].addr]

StateInv == TypeOK /\ LockInv /\ ItemInv /\ SweepInv

-----------------------------------------------------------------------------
(* A mutex is held by the thread whose program point says so.              *)
LEMMA LockStep == StateInv /\ [Next]_vars => LockInv'
<1> SUFFICES ASSUME StateInv, [Next]_vars PROVE LockInv'
  OBVIOUS
<1>a. /\ pc \in [Threads -> {"idle"} \cup AllocPcs \cup GcPcs]
      /\ paused \in BOOLEAN
  BY DEF StateInv, TypeOK, ControlType
<1>b. LockInv
  BY DEF StateInv
<1> USE DEF LockInv, locks, queue, books, gcv, cmdv
<1>1. ASSUME NEW t \in Threads,
             \/ OnAllocation(t) \/ LockAddAlloc(t) \/ LockStopShared(t)
             \/ BeginAddItem(t) \/ FinishAddItem(t)
      PROVE  LockInv'
  BY <1>a, <1>b, ThreadsAssumption, <1>1 DEF OnAllocation, Goto, LockAddAlloc,
        AddAllocFree, LockStopShared, BeginAddItem, BeginEnqueue,
        FinishAddItem, FinishEnqueue
<1>2. ASSUME NEW t \in Threads,
             \/ OnGc(t) \/ SeeEmpty(t) \/ Mark(t)
             \/ BeginSweepOne(t) \/ FinishSweepOne(t) \/ UnlockGc(t)
             \/ GcReturn(t)
      PROVE  LockInv'
  BY <1>a, <1>b, ThreadsAssumption, <1>2 DEF OnGc, Goto, SeeEmpty, Mark,
        BeginSweepOne, BeginEnqueue, FinishSweepOne, FinishEnqueue, Erase,
        UnlockGc, GcReturn
<1>3. CASE \/ OnFrame \/ WorkerTop \/ WorkerLock \/ WorkerEmpty
           \/ WorkerYield \/ WorkerFree \/ WorkerSkip \/ WorkerAlloc
           \/ WorkerRealloc
  BY <1>a, <1>b, ThreadsAssumption, <1>3 DEF OnFrame, WorkerTop, WorkerLock,
        WorkerEmpty, WorkerYield, WorkerFree, Dequeue, Report, Item,
        WorkerSkip, WorkerAlloc, WorkerRealloc, OldSize
<1>4. CASE \/ OnPause \/ PauseApp \/ ResumeApp \/ OnFindReferences
           \/ FindLock \/ FindCheck \/ FindWait \/ FindGcLock
           \/ FindGcUnlock \/ FindGcReturn \/ FindReadLock \/ FindDone
  BY <1>a, <1>b, ThreadsAssumption, <1>4 DEF OnPause, Command, PauseApp,
        StopShared, ResumeApp, OnFindReferences, FindLock, AddAllocFree,
        FindCheck, FindWait, FindGcLock, FindGcUnlock, FindGcReturn,
        FindReadLock, FindDone
<1>5. CASE UNCHANGED vars
  BY <1>a, <1>b, ThreadsAssumption, <1>5 DEF vars
<1> QED
  BY <1>1, <1>2, <1>3, <1>4, <1>5
  DEF Next, CallbackStep, WorkerStep, CommandStep

(* Only the sweeping thread, which holds m_gc_mutex, erases objects.       *)
LEMMA SweepStep == StateInv /\ [Next]_vars => SweepInv'
<1> SUFFICES ASSUME StateInv, [Next]_vars PROVE SweepInv'
  OBVIOUS
<1>a. pc \in [Threads -> {"idle"} \cup AllocPcs \cup GcPcs]
  BY DEF StateInv, TypeOK, ControlType
<1>b. LockInv /\ SweepInv
  BY DEF StateInv
<1> USE DEF LockInv, SweepInv, Tracked, locks, queue, books, gcv, cmdv
<1>1. ASSUME NEW t \in Threads,
             \/ OnAllocation(t) \/ LockAddAlloc(t) \/ LockStopShared(t)
             \/ BeginAddItem(t) \/ FinishAddItem(t)
      PROVE  SweepInv'
  BY <1>a, <1>b, ThreadsAssumption, <1>1 DEF OnAllocation, Goto, LockAddAlloc,
        AddAllocFree, LockStopShared, BeginAddItem, BeginEnqueue,
        FinishAddItem, FinishEnqueue
<1>2. ASSUME NEW t \in Threads,
             \/ OnGc(t) \/ SeeEmpty(t) \/ Mark(t)
             \/ BeginSweepOne(t) \/ FinishSweepOne(t) \/ UnlockGc(t)
             \/ GcReturn(t)
      PROVE  SweepInv'
  BY <1>a, <1>b, ThreadsAssumption, <1>2 DEF OnGc, Goto, SeeEmpty, Mark,
        BeginSweepOne, BeginEnqueue, FinishSweepOne, FinishEnqueue, Erase,
        UnlockGc, GcReturn
<1>3. CASE \/ OnFrame \/ WorkerTop \/ WorkerLock \/ WorkerEmpty
           \/ WorkerYield \/ WorkerFree \/ WorkerSkip \/ WorkerAlloc
           \/ WorkerRealloc
  BY <1>a, <1>b, ThreadsAssumption, <1>3 DEF OnFrame, WorkerTop, WorkerLock,
        WorkerEmpty, WorkerYield, WorkerFree, Dequeue, Report, Item,
        WorkerSkip, WorkerAlloc, WorkerRealloc, OldSize
<1>4. CASE \/ OnPause \/ PauseApp \/ ResumeApp \/ OnFindReferences
           \/ FindLock \/ FindCheck \/ FindWait \/ FindGcLock
           \/ FindGcUnlock \/ FindGcReturn \/ FindReadLock \/ FindDone
  BY <1>a, <1>b, ThreadsAssumption, <1>4 DEF OnPause, Command, PauseApp,
        StopShared, ResumeApp, OnFindReferences, FindLock, AddAllocFree,
        FindCheck, FindWait, FindGcLock, FindGcUnlock, FindGcReturn,
        FindReadLock, FindDone
<1>5. CASE UNCHANGED vars
  BY <1>a, <1>b, ThreadsAssumption, <1>5 DEF vars
<1> QED
  BY <1>1, <1>2, <1>3, <1>4, <1>5
  DEF Next, CallbackStep, WorkerStep, CommandStep

(* A callback's work item is built before it is queued and is not touched  *)
(* by other threads.                                                       *)
LEMMA ItemStep == StateInv /\ [Next]_vars => ItemInv'
<1> SUFFICES ASSUME StateInv, [Next]_vars PROVE ItemInv'
  OBVIOUS
<1>a. /\ pc \in [Threads -> {"idle"} \cup AllocPcs \cup GcPcs]
      /\ item \in [Threads -> WorkItem \cup {NoItem}]
      /\ frame \in Nat /\ gcFrame \in Nat
      /\ todo \subseteq Addr /\ Tracked \subseteq Addr
      /\ allocations \in [Tracked -> Nat]
  BY DEF StateInv, TypeOK, ControlType, QueueType, BooksType
<1>b. LockInv /\ SweepInv /\ ItemInv
  BY DEF StateInv
<1> USE DEF LockInv, ItemInv, WorkItem, AllocPcs, locks, queue, books, gcv, cmdv
<1>1. ASSUME NEW t \in Threads,
             \/ OnAllocation(t) \/ LockAddAlloc(t) \/ LockStopShared(t)
             \/ BeginAddItem(t) \/ FinishAddItem(t)
      PROVE  ItemInv'
  BY SMTT(30), <1>a, <1>b, ThreadsAssumption, SizesAssumption, <1>1 DEF OnAllocation,
        Goto, LockAddAlloc, AddAllocFree, LockStopShared, BeginAddItem,
        BeginEnqueue, FinishAddItem, FinishEnqueue
<1>2. ASSUME NEW t \in Threads, BeginSweepOne(t) PROVE ItemInv'
  <2>1. PICK a \in todo :
          item' = [item EXCEPT ![t] = [type |-> "free", frame |-> gcFrame,
                      addr |-> a, size |-> allocations[a], stopword |-> FALSE]]
    BY <1>2 DEF BeginSweepOne
  <2>2. a \in Tracked /\ a \in Addr /\ allocations[a] \in Nat
    BY <1>a, <1>b, <1>2 DEF BeginSweepOne, SweepInv
  <2>3. item'[t] \in WorkItem /\ item'[t].type = "free" /\ item'[t].addr = a
    BY <1>a, <2>1, <2>2
  <2>4. \A u \in Threads \ {t} : item'[u] = item[u] /\ pc'[u] = pc[u]
    BY <1>a, <1>2, <2>1 DEF BeginSweepOne, Goto
  <2>5. todo' = todo /\ pc'[t] = "gc_enqueue"
    BY <1>a, <1>2 DEF BeginSweepOne, Goto
  <2> QED
    BY <1>b, <2>3, <2>4, <2>5
<1>3. ASSUME NEW t \in Threads,
             \/ OnGc(t) \/ SeeEmpty(t) \/ Mark(t)
             \/ FinishSweepOne(t) \/ UnlockGc(t) \/ GcReturn(t)
      PROVE  ItemInv'
  BY <1>a, <1>b, ThreadsAssumption, SizesAssumption, <1>3 DEF OnGc, Goto,
        SeeEmpty, Mark, FinishSweepOne, FinishEnqueue, Erase, UnlockGc,
        GcReturn
<1>4. CASE \/ OnFrame \/ WorkerTop \/ WorkerLock \/ WorkerEmpty
           \/ WorkerYield \/ WorkerFree \/ WorkerSkip \/ WorkerAlloc
           \/ WorkerRealloc
  BY <1>a, <1>b, ThreadsAssumption, SizesAssumption, <1>4 DEF OnFrame,
        WorkerTop, WorkerLock, WorkerEmpty, WorkerYield, WorkerFree, Dequeue,
        Report, Item, WorkerSkip, WorkerAlloc, WorkerRealloc, OldSize
<1>5. CASE \/ OnPause \/ PauseApp \/ ResumeApp \/ OnFindReferences
           \/ FindLock \/ FindCheck \/ FindWait \/ FindGcLock
           \/ FindGcUnlock \/ FindGcReturn \/ FindReadLock \/ FindDone
  BY <1>a, <1>b, ThreadsAssumption, SizesAssumption, <1>5 DEF OnPause,
        Command, PauseApp, StopShared, ResumeApp, OnFindReferences, FindLock,
        AddAllocFree, FindCheck, FindWait, FindGcLock, FindGcUnlock,
        FindGcReturn, FindReadLock, FindDone
<1>6. CASE UNCHANGED vars
  BY <1>a, <1>b, ThreadsAssumption, SizesAssumption, <1>6 DEF vars
<1> QED
  BY <1>1, <1>2, <1>3, <1>4, <1>5, <1>6
  DEF Next, CallbackStep, WorkerStep, CommandStep

(* Program points, owners, flags and frame numbers keep their types.       *)
LEMMA ControlTypeStep == StateInv /\ [Next]_vars => ControlType'
<1> SUFFICES ASSUME StateInv, [Next]_vars PROVE ControlType'
  OBVIOUS
<1>a. ControlType
  BY DEF StateInv, TypeOK
<1> USE DEF ControlType, AllocPcs, GcPcs, CmdPcs, Enqueuing, locks, queue, books, gcv, cmdv
<1>1. ASSUME NEW t \in Threads, OnAllocation(t) PROVE ControlType'
  BY <1>a, <1>1 DEF OnAllocation, Goto
<1>2. ASSUME NEW t \in Threads, LockAddAlloc(t) PROVE ControlType'
  BY <1>a, <1>2 DEF LockAddAlloc, AddAllocFree, Goto
<1>3. ASSUME NEW t \in Threads,
             \/ LockStopShared(t) \/ BeginAddItem(t) \/ FinishAddItem(t)
      PROVE  ControlType'
  BY SMTT(30), <1>a, <1>3 DEF LockStopShared, Goto, BeginAddItem, BeginEnqueue,
        FinishAddItem, FinishEnqueue
<1>4. ASSUME NEW t \in Threads, OnGc(t) PROVE ControlType'
  BY <1>a, <1>4 DEF OnGc, Goto
<1>5. ASSUME NEW t \in Threads,
             \/ SeeEmpty(t) \/ Mark(t) \/ BeginSweepOne(t)
             \/ FinishSweepOne(t) \/ UnlockGc(t) \/ GcReturn(t)
      PROVE  ControlType'
  BY <1>a, <1>5 DEF SeeEmpty, Goto, Mark, BeginSweepOne, BeginEnqueue,
        FinishSweepOne, FinishEnqueue, Erase, UnlockGc, GcReturn
<1>6. CASE OnFrame
  BY <1>a, <1>6 DEF OnFrame
<1>7. CASE \/ WorkerTop \/ WorkerLock \/ WorkerEmpty \/ WorkerYield
           \/ WorkerFree \/ WorkerSkip \/ WorkerAlloc \/ WorkerRealloc
  BY ZenonT(40), <1>a, <1>7 DEF WorkerTop, WorkerLock, WorkerEmpty, WorkerYield,
        WorkerFree, Dequeue, Report, Item, WorkerSkip, WorkerAlloc,
        WorkerRealloc, OldSize
<1>8. CASE OnPause
  BY <1>a, <1>8 DEF OnPause, Command
<1>9. CASE PauseApp
  BY <1>a, <1>9 DEF PauseApp, StopShared
<1>10. CASE ResumeApp
  <2>1. spent' \in [allocs : Nat, gcs : Nat, cmds : Nat]
    BY <1>a, <1>10 DEF ResumeApp, Command
  <2>2. paused' \in BOOLEAN /\ cpc' \in CmdPcs
    BY <1>10 DEF ResumeApp, Command
  <2> QED
    BY <1>a, <1>10, <2>1, <2>2 DEF ResumeApp
<1>11. CASE OnFindReferences
  BY <1>a, <1>11 DEF OnFindReferences, Command
<1>12. CASE FindLock
  BY <1>a, <1>12 DEF FindLock, AddAllocFree
<1>13. CASE FindReadLock
  BY <1>a, <1>13 DEF FindReadLock
<1>14. CASE FindDone
  BY <1>a, <1>14 DEF FindDone
<1>15. CASE \/ FindCheck \/ FindWait \/ FindGcLock \/ FindGcUnlock
            \/ FindGcReturn
  BY <1>a, <1>15 DEF FindCheck, FindWait, FindGcLock, FindGcUnlock,
        FindGcReturn
<1>16. CASE UNCHANGED vars
  BY <1>a, <1>16 DEF vars
<1> QED
  BY <1>1, <1>2, <1>3, <1>4, <1>5, <1>6, <1>7, <1>8, <1>9, <1>10,
        <1>11, <1>12, <1>13, <1>14, <1>15, <1>16
  DEF Next, CallbackStep, WorkerStep, CommandStep

(* Appending to a sequence.                                                *)
LEMMA AppendFacts ==
    ASSUME NEW S, NEW s \in Seq(S), NEW e \in S
    PROVE  /\ Append(s, e) \in Seq(S)
           /\ Len(s) \in Nat /\ Len(Append(s, e)) = Len(s) + 1
           /\ \A i \in 1 .. Len(s) : Append(s, e)[i] = s[i]
           /\ Append(s, e)[Len(s) + 1] = e
  OBVIOUS

(* The queue holds work items.                                             *)
LEMMA QueueTypeStep == StateInv /\ [Next]_vars => QueueType'
<1> SUFFICES ASSUME StateInv, [Next]_vars PROVE QueueType'
  OBVIOUS
<1>a. /\ QueueType /\ ItemInv /\ SweepInv /\ frame \in Nat /\ gcFrame \in Nat
      /\ pc \in [Threads -> {"idle"} \cup AllocPcs \cup GcPcs]
      /\ todo \subseteq Addr /\ Tracked \subseteq Addr /\ allocations \in [Tracked -> Nat]
  BY DEF StateInv, TypeOK, ControlType, BooksType
<1> USE DEF ItemInv, AllocPcs, locks, queue, books, gcv, cmdv
<1>1. ASSUME NEW t \in Threads, OnAllocation(t) PROVE QueueType'
  <2>1. item' \in [Threads -> WorkItem \cup {NoItem}]
    BY <1>a, <1>1, SizesAssumption DEF OnAllocation, QueueType, WorkItem
  <2> QED
    BY <1>a, <1>1, <2>1 DEF QueueType, OnAllocation
<1>2. ASSUME NEW t \in Threads, LockAddAlloc(t) PROVE QueueType'
  <2>1. item' \in [Threads -> WorkItem \cup {NoItem}]
    BY <1>a, <1>2 DEF QueueType, LockAddAlloc, QueueType, WorkItem
  <2> QED
    BY <1>a, <1>2, <2>1 DEF QueueType, LockAddAlloc
<1>3. ASSUME NEW t \in Threads, FinishAddItem(t) PROVE QueueType'
  <2>1. item[t] \in WorkItem /\ item' \in [Threads -> WorkItem \cup {NoItem}]
    BY <1>a, <1>3 DEF FinishAddItem, QueueType
  <2>2. /\ items' = items \/ items' = Append(items, item[t])
        /\ lost' = lost \/ lost' = Append(lost, item[t])
        /\ head' = head /\ before' = before
    BY <1>3 DEF FinishAddItem, FinishEnqueue
  <2>3. items' \in Seq(WorkItem) /\ lost' \in Seq(WorkItem) /\ Len(items') >= Len(items)
    <3>1. items \in Seq(WorkItem) /\ lost \in Seq(WorkItem)
      BY <1>a DEF QueueType
    <3>2. /\ Append(items, item[t]) \in Seq(WorkItem)
          /\ Append(lost, item[t]) \in Seq(WorkItem)
          /\ Len(items) \in Nat /\ Len(Append(items, item[t])) = Len(items) + 1
      BY <2>1, <3>1, AppendFacts
    <3>3. items' \in Seq(WorkItem) /\ lost' \in Seq(WorkItem)
      BY <2>2, <3>1, <3>2, Zenon
    <3>4. Len(items') = Len(items) \/ Len(items') = Len(items) + 1
      BY <2>2, <3>2, Zenon
    <3> QED
      BY <3>2, <3>3, <3>4
  <2> QED
    BY <1>a, <2>1, <2>2, <2>3 DEF QueueType
<1>4. ASSUME NEW t \in Threads,
             \/ LockStopShared(t) \/ BeginAddItem(t)
      PROVE  QueueType'
  BY <1>a, <1>4 DEF QueueType, LockStopShared, Goto, BeginAddItem,
        BeginEnqueue
<1>5. ASSUME NEW t \in Threads, BeginSweepOne(t) PROVE QueueType'
  <2>1. item' \in [Threads -> WorkItem \cup {NoItem}]
    <3>1. PICK a \in todo :
          item' = [item EXCEPT ![t] = [type |-> "free", frame |-> gcFrame,
                      addr |-> a, size |-> allocations[a], stopword |-> FALSE]]
      BY <1>5 DEF BeginSweepOne
    <3>2. a \in Tracked /\ a \in Addr /\ allocations[a] \in Nat
      BY <1>a, <1>5, <3>1 DEF BeginSweepOne, SweepInv
    <3>3. [type |-> "free", frame |-> gcFrame, addr |-> a,
           size |-> allocations[a], stopword |-> FALSE] \in WorkItem
      BY <1>a, <3>2 DEF WorkItem
    <3> QED
      BY <1>a, <3>1, <3>3 DEF QueueType
  <2> QED
    BY <1>a, <1>5, <2>1 DEF QueueType, BeginSweepOne
<1>6. ASSUME NEW t \in Threads, FinishSweepOne(t) PROVE QueueType'
  <2>1. item[t] \in WorkItem /\ item' \in [Threads -> WorkItem \cup {NoItem}]
    BY <1>a, <1>6 DEF QueueType, FinishSweepOne, QueueType
  <2>2. /\ items' = items \/ items' = Append(items, item[t])
        /\ lost' = lost \/ lost' = Append(lost, item[t])
        /\ head' = head /\ before' = before
    BY <1>6 DEF FinishSweepOne, FinishEnqueue
  <2>3. items' \in Seq(WorkItem) /\ lost' \in Seq(WorkItem) /\ Len(items') >= Len(items)
    <3>1. items \in Seq(WorkItem) /\ lost \in Seq(WorkItem)
      BY <1>a DEF QueueType
    <3>2. /\ Append(items, item[t]) \in Seq(WorkItem)
          /\ Append(lost, item[t]) \in Seq(WorkItem)
          /\ Len(items) \in Nat /\ Len(Append(items, item[t])) = Len(items) + 1
      BY <2>1, <3>1, AppendFacts
    <3>3. items' \in Seq(WorkItem) /\ lost' \in Seq(WorkItem)
      BY <2>2, <3>1, <3>2, Zenon
    <3>4. Len(items') = Len(items) \/ Len(items') = Len(items) + 1
      BY <2>2, <3>2, Zenon
    <3> QED
      BY <3>2, <3>3, <3>4
  <2> QED
    BY <1>a, <2>1, <2>2, <2>3 DEF QueueType
<1>7. ASSUME NEW t \in Threads,
             \/ OnGc(t) \/ SeeEmpty(t) \/ Mark(t)
             \/ UnlockGc(t) \/ GcReturn(t)
      PROVE  QueueType'
  BY <1>a, <1>7 DEF QueueType, OnGc, Goto, SeeEmpty, Mark, UnlockGc, GcReturn
<1>8. CASE \/ OnFrame \/ WorkerTop \/ WorkerLock \/ WorkerEmpty
           \/ WorkerYield \/ WorkerFree \/ WorkerSkip \/ WorkerAlloc
           \/ WorkerRealloc
  BY <1>a, <1>8 DEF QueueType, OnFrame, WorkerTop, WorkerLock, WorkerEmpty,
        WorkerYield, WorkerFree, Dequeue, Report, Item, WorkerSkip,
        WorkerAlloc, WorkerRealloc, OldSize
<1>9. CASE \/ OnPause \/ PauseApp \/ ResumeApp \/ OnFindReferences
           \/ FindLock \/ FindCheck \/ FindWait \/ FindGcLock
           \/ FindGcUnlock \/ FindGcReturn \/ FindReadLock \/ FindDone
  BY <1>a, <1>9 DEF QueueType, OnPause, Command, PauseApp, StopShared,
        ResumeApp, OnFindReferences, FindLock, AddAllocFree, FindCheck,
        FindWait, FindGcLock, FindGcUnlock, FindGcReturn, FindReadLock,
        FindDone
<1>10. CASE UNCHANGED vars
  BY <1>a, <1>10 DEF QueueType, vars
<1> QED
  BY <1>1, <1>2, <1>3, <1>4, <1>5, <1>6, <1>7, <1>8, <1>9, <1>10
  DEF Next, CallbackStep, WorkerStep, CommandStep

(* The tracked sizes and the byte counters are natural numbers.            *)
LEMMA BooksTypeStep == StateInv /\ [Next]_vars => BooksType'
<1> SUFFICES ASSUME StateInv, [Next]_vars PROVE BooksType'
  OBVIOUS
<1>a. BooksType /\ ItemInv /\ SweepInv
  BY DEF StateInv, TypeOK
<1>b. \A i \in 1 .. Len(items) : items[i] \in WorkItem
  BY DEF StateInv, TypeOK, QueueType
<1>c. Len(items) \in Nat /\ head \in 0 .. Len(items)
  BY DEF StateInv, TypeOK, QueueType
<1> USE DEF BooksType, Tracked, WorkItem, locks, queue, books, gcv, cmdv
<1>1. ASSUME NEW t \in Threads,
             \/ OnAllocation(t) \/ LockAddAlloc(t) \/ LockStopShared(t)
             \/ BeginAddItem(t) \/ FinishAddItem(t)
      PROVE  BooksType'
  BY <1>a, <1>b, <1>c, <1>1 DEF OnAllocation, Goto, LockAddAlloc,
        AddAllocFree, LockStopShared, BeginAddItem, BeginEnqueue,
        FinishAddItem, FinishEnqueue
<1>2. ASSUME NEW t \in Threads,
             \/ OnGc(t) \/ SeeEmpty(t) \/ Mark(t)
             \/ BeginSweepOne(t) \/ FinishSweepOne(t) \/ UnlockGc(t)
             \/ GcReturn(t)
      PROVE  BooksType'
  BY <1>a, <1>b, <1>c, <1>2 DEF OnGc, Goto, SeeEmpty, Mark, BeginSweepOne,
        BeginEnqueue, FinishSweepOne, FinishEnqueue, Erase, UnlockGc, GcReturn
<1>3. CASE WorkerFree
  <2>1. Item \in WorkItem
    BY <1>b, <1>c, <1>3 DEF WorkerFree, Dequeue, Item
  <2>2. /\ balance' = [balance EXCEPT ![Item.addr] = @ + (-1)]
        /\ lastReported' = Item.frame
        /\ todo' = todo
    BY <1>3 DEF WorkerFree, Dequeue, Report
  <2>3. balance' \in [Addr -> Int] /\ lastReported' \in Nat
    BY <1>a, <2>1, <2>2
  <2>4. freed' \in Nat
    BY <1>a, <1>3, <2>1 DEF WorkerFree
  <2> QED
    BY <1>a, <1>3, <2>1, <2>2, <2>3, <2>4 DEF WorkerFree
<1>4. CASE WorkerRealloc
  <2>1. Item \in WorkItem
    BY <1>b, <1>c, <1>4 DEF WorkerRealloc, Dequeue, Item
  <2>2. /\ balance' = [balance EXCEPT ![Item.addr] = @ + (0)]
        /\ lastReported' = Item.frame
        /\ todo' = todo
    BY <1>4 DEF WorkerRealloc, Dequeue, Report
  <2>3. balance' \in [Addr -> Int] /\ lastReported' \in Nat
    BY <1>a, <2>1, <2>2
  <2>4. freed' \in Nat /\ allocated' \in Nat
    BY <1>a, <1>4, <2>1 DEF WorkerRealloc, OldSize
  <2> QED
    BY <1>a, <1>4, <2>1, <2>2, <2>3, <2>4 DEF WorkerRealloc
<1>5. CASE \/ OnFrame \/ WorkerTop \/ WorkerLock \/ WorkerEmpty
           \/ WorkerYield \/ WorkerSkip \/ WorkerAlloc
  BY SMTT(30), <1>a, <1>b, <1>c, <1>5 DEF OnFrame, WorkerTop, WorkerLock, WorkerEmpty,
        WorkerYield, WorkerSkip, Dequeue, Item, WorkerAlloc, Report
<1>6. CASE \/ OnPause \/ PauseApp \/ ResumeApp \/ OnFindReferences
           \/ FindLock \/ FindCheck \/ FindWait \/ FindGcLock
           \/ FindGcUnlock \/ FindGcReturn \/ FindReadLock \/ FindDone
  BY <1>a, <1>b, <1>c, <1>6 DEF OnPause, Command, PauseApp, StopShared,
        ResumeApp, OnFindReferences, FindLock, AddAllocFree, FindCheck,
        FindWait, FindGcLock, FindGcUnlock, FindGcReturn, FindReadLock,
        FindDone
<1>7. CASE UNCHANGED vars
  BY <1>a, <1>b, <1>c, <1>7 DEF vars
<1> QED
  BY <1>1, <1>2, <1>3, <1>4, <1>5, <1>6, <1>7
  DEF Next, CallbackStep, WorkerStep, CommandStep

(* What m_work_items.enqueue does to the queue.                            *)
LEMMA EnqueueEffect ==
    ASSUME StateInv, NEW t \in Threads, item[t] \in WorkItem, FinishEnqueue(t)
    PROVE  /\ head' = head
           /\ \/ /\ lost' = lost
                 /\ Len(items') = Len(items) + 1
                 /\ \A i \in 1 .. Len(items) : items'[i] = items[i]
                 /\ items'[Len(items) + 1] = item[t]
              \/ /\ items' = items
                 /\ Len(lost') = Len(lost) + 1
                 /\ \A i \in 1 .. Len(lost) : lost'[i] = lost[i]
                 /\ lost'[Len(lost) + 1] = item[t]
<1>1. items \in Seq(WorkItem) /\ lost \in Seq(WorkItem)
  BY DEF StateInv, TypeOK, QueueType
<1>2. /\ Len(Append(items, item[t])) = Len(items) + 1
      /\ \A i \in 1 .. Len(items) : Append(items, item[t])[i] = items[i]
      /\ Append(items, item[t])[Len(items) + 1] = item[t]
  BY <1>1, AppendFacts
<1>3. /\ Len(Append(lost, item[t])) = Len(lost) + 1
      /\ \A i \in 1 .. Len(lost) : Append(lost, item[t])[i] = lost[i]
      /\ Append(lost, item[t])[Len(lost) + 1] = item[t]
  BY <1>1, AppendFacts
<1>4. CASE items' = Append(items, item[t]) /\ lost' = lost
  BY <1>2, <1>4, Zenon DEF FinishEnqueue
<1>5. CASE items' = items /\ lost' = Append(lost, item[t])
  BY <1>3, <1>5, Zenon DEF FinishEnqueue
<1> QED
  BY <1>4, <1>5 DEF FinishEnqueue

(* m_add_alloc_mutex orders the allocations: frame numbers are read under  *)
(* it and no other allocation can enter the queue until it is released.    *)
LEMMA FrameStep ==
    StateInv /\ FrameInv /\ AllocFramesInOrder /\ [Next]_vars
        => FrameInv' /\ AllocFramesInOrder'
<1> SUFFICES ASSUME StateInv, FrameInv, AllocFramesInOrder, [Next]_vars
             PROVE  FrameInv' /\ AllocFramesInOrder'
  OBVIOUS
<1> DEFINE AllocHeld == {"alloc_stop", "alloc_walk", "alloc_enqueue"}
<1>a. /\ frame \in Nat
      /\ pc \in [Threads -> {"idle"} \cup AllocPcs \cup GcPcs]
      /\ item \in [Threads -> WorkItem \cup {NoItem}]
      /\ Len(items) \in Nat
      /\ \A i \in 1 .. Len(items) : items[i].frame \in Nat
  <2>1. items \in Seq(WorkItem)
    BY DEF StateInv, TypeOK, QueueType
  <2>2. \A i \in 1 .. Len(items) : items[i] \in WorkItem
    BY <2>1
  <2>3. \A i \in 1 .. Len(items) : items[i].frame \in Nat
    BY <2>2 DEF WorkItem
  <2> QED
    BY <2>1, <2>3 DEF StateInv, TypeOK, ControlType, QueueType
<1>b. /\ \A i \in 1 .. Len(items) : items[i].type = "alloc" => items[i].frame <= frame
      /\ \A t \in Threads : pc[t] \in AllocHeld =>
            /\ item[t].frame <= frame
            /\ \A i \in 1 .. Len(items) :
                  items[i].type = "alloc" => items[i].frame <= item[t].frame
  BY DEF FrameInv
<1>c. \A t \in Threads : pc[t] \in AllocHeld => addAllocMutex = t /\ item[t].frame \in Nat
  BY DEF StateInv, LockInv, ItemInv, AllocPcs, WorkItem
<1>1. ASSUME UNCHANGED <<frame, items, item>>,
             \A t \in Threads : pc'[t] \in AllocHeld => pc[t] \in AllocHeld
      PROVE  FrameInv' /\ AllocFramesInOrder'
  <2>1. FrameInv'
    BY <1>b, <1>1 DEF FrameInv
  <2>2. AllocFramesInOrder'
    BY <1>1 DEF AllocFramesInOrder
  <2> QED
    BY <2>1, <2>2
<1>2. ASSUME NEW t \in Threads, pc'[t] \notin AllocHeld,
             \A u \in Threads \ {t} : pc'[u] = pc[u] /\ item'[u] = item[u],
             UNCHANGED <<frame, items>>
      PROVE  FrameInv' /\ AllocFramesInOrder'
  <2>1. FrameInv'
    BY <1>b, <1>2 DEF FrameInv
  <2>2. AllocFramesInOrder'
    BY <1>2 DEF AllocFramesInOrder
  <2> QED
    BY <2>1, <2>2
<1>3. ASSUME NEW t \in Threads, OnAllocation(t) \/ BeginSweepOne(t)
      PROVE  FrameInv' /\ AllocFramesInOrder'
  BY <1>a, <1>2, <1>3 DEF OnAllocation, BeginSweepOne, BeginEnqueue, Goto, queue
<1>4. ASSUME NEW t \in Threads, LockAddAlloc(t)
      PROVE  FrameInv' /\ AllocFramesInOrder'
  <2>1. /\ frame' = frame /\ items' = items
        /\ item'[t].frame = frame
        /\ \A u \in Threads \ {t} : pc'[u] = pc[u] /\ item'[u] = item[u]
    <3>1. item[t] \in WorkItem
      BY <1>4 DEF StateInv, ItemInv, LockAddAlloc, AllocPcs
    <3> QED
      BY <1>a, <1>4, <3>1 DEF LockAddAlloc, Goto, WorkItem, queue
  <2>2. \A u \in Threads : pc[u] \notin AllocHeld
    BY <1>4, <1>c, ThreadsAssumption DEF LockAddAlloc, AddAllocFree
  <2>3. FrameInv'
    BY <1>a, <1>b, <2>1, <2>2 DEF FrameInv
  <2>4. AllocFramesInOrder'
    BY <2>1 DEF AllocFramesInOrder
  <2> QED
    BY <2>3, <2>4
<1>5. ASSUME NEW t \in Threads, FinishAddItem(t)
      PROVE  FrameInv' /\ AllocFramesInOrder'
  <2>1. /\ item[t] \in WorkItem
        /\ item[t].type = "alloc" /\ pc[t] \in AllocHeld
    BY <1>5 DEF StateInv, ItemInv, FinishAddItem, AllocPcs
  <2>2. frame' = frame /\ FinishEnqueue(t)
    BY <1>5 DEF FinishAddItem
  <2>3. \A u \in Threads : pc'[u] \notin AllocHeld
    <3>1. \A u \in Threads \ {t} : pc[u] \notin AllocHeld
      BY <1>c, <2>1
    <3> QED
      BY <1>a, <1>5, <3>1 DEF FinishAddItem, Goto
  <2>4. CASE items' = items
    <3>1. FrameInv'
      BY <1>b, <2>2, <2>3, <2>4 DEF FrameInv
    <3>2. AllocFramesInOrder'
      BY <2>4 DEF AllocFramesInOrder
    <3> QED
      BY <3>1, <3>2
  <2>5. CASE /\ Len(items') = Len(items) + 1
             /\ \A i \in 1 .. Len(items) : items'[i] = items[i]
             /\ items'[Len(items) + 1] = item[t]
    <3>1. FrameInv'
      BY <1>a, <1>b, <2>1, <2>2, <2>3, <2>5 DEF FrameInv
    <3>2. AllocFramesInOrder'
      <4> SUFFICES ASSUME NEW i \in 1 .. Len(items'), NEW j \in 1 .. Len(items'),
                          i < j, items'[i].type = "alloc", items'[j].type = "alloc"
                   PROVE  items'[i].frame <= items'[j].frame
        BY DEF AllocFramesInOrder
      <4>1. i \in 1 .. Len(items) /\ items'[i] = items[i]
        BY <1>a, <2>5
      <4>2. CASE j \in 1 .. Len(items)
        BY <2>5, <4>1, <4>2 DEF AllocFramesInOrder
      <4>3. CASE j = Len(items) + 1
        BY <1>b, <2>1, <2>5, <4>1, <4>3
      <4> QED
        BY <1>a, <2>5, <4>2, <4>3
    <3> QED
      BY <3>1, <3>2
  <2> QED
    BY <2>1, <2>2, <2>4, <2>5, EnqueueEffect
<1>6. ASSUME NEW t \in Threads, FinishSweepOne(t)
      PROVE  FrameInv' /\ AllocFramesInOrder'
  <2>1. item[t] \in WorkItem /\ item[t].type = "free"
    BY <1>6 DEF StateInv, ItemInv, FinishSweepOne
  <2>2. frame' = frame /\ FinishEnqueue(t)
    BY <1>6 DEF FinishSweepOne
  <2>3. /\ pc'[t] \notin AllocHeld
        /\ \A u \in Threads \ {t} : pc'[u] = pc[u] /\ item'[u] = item[u]
    BY <1>a, <1>6 DEF FinishSweepOne, Goto
  <2>4. CASE items' = items
    BY <1>2, <2>2, <2>3, <2>4
  <2>5. CASE /\ Len(items') = Len(items) + 1
             /\ \A i \in 1 .. Len(items) : items'[i] = items[i]
             /\ items'[Len(items) + 1] = item[t]
    <3>1. \A i \in 1 .. Len(items') : items'[i].type = "alloc" =>
             i \in 1 .. Len(items) /\ items'[i] = items[i]
      BY <1>a, <2>1, <2>5
    <3>2. FrameInv'
      BY <1>b, <2>2, <2>3, <3>1 DEF FrameInv
    <3>3. AllocFramesInOrder'
      BY <3>1 DEF AllocFramesInOrder
    <3> QED
      BY <3>2, <3>3
  <2> QED
    BY <2>1, <2>2, <2>4, <2>5, EnqueueEffect
<1>7. CASE OnFrame
  <2>1. items' = items /\ item' = item /\ pc' = pc /\ frame' = frame + 1
    BY <1>7 DEF OnFrame, queue
  <2>2. FrameInv'
    BY <1>a, <1>b, <1>c, <2>1 DEF FrameInv
  <2>3. AllocFramesInOrder'
    BY <2>1 DEF AllocFramesInOrder
  <2> QED
    BY <2>2, <2>3
<1>8. ASSUME NEW t \in Threads,
             \/ LockStopShared(t) \/ BeginAddItem(t) \/ OnGc(t) \/ SeeEmpty(t)
             \/ Mark(t) \/ UnlockGc(t) \/ GcReturn(t)
      PROVE  FrameInv' /\ AllocFramesInOrder'
  BY <1>a, <1>1, <1>8 DEF LockStopShared, BeginAddItem, OnGc, SeeEmpty, Mark,
        UnlockGc, GcReturn, Goto, queue
<1>9. CASE WorkerStep
  BY <1>1, <1>9 DEF WorkerStep, WorkerTop, WorkerLock, WorkerEmpty, WorkerYield,
        WorkerFree, WorkerSkip, WorkerAlloc, WorkerRealloc, Dequeue, queue
<1>10. CASE OnPause \/ ResumeApp \/ OnFindReferences \/ CommandStep
  BY <1>1, <1>10 DEF OnPause, ResumeApp, OnFindReferences, CommandStep, PauseApp,
        FindLock, FindCheck, FindWait, FindGcLock, FindGcUnlock, FindGcReturn,
        FindReadLock, FindDone, queue
<1>11. CASE UNCHANGED vars
  BY <1>1, <1>11 DEF vars, queue
<1> QED
  BY <1>3, <1>4, <1>5, <1>6, <1>7, <1>8, <1>9, <1>10, <1>11 DEF Next, CallbackStep

(* Only finitely many frees are pending or lost.                           *)
LEMMA FreesFinite ==
    ASSUME StateInv, NEW a \in Addr
    PROVE  /\ IsFiniteSet(PendingFrees(a)) /\ Cardinality(PendingFrees(a)) \in Nat
           /\ IsFiniteSet(LostFrees(a)) /\ Cardinality(LostFrees(a)) \in Nat
<1>1. Len(items) \in Nat /\ Len(lost) \in Nat /\ head \in Nat
  BY DEF StateInv, TypeOK, QueueType
<1>2. /\ PendingFrees(a) \subseteq head + 1 .. Len(items)
      /\ LostFrees(a) \subseteq 1 .. Len(lost)
  BY DEF PendingFrees, LostFrees
<1>3. IsFiniteSet(head + 1 .. Len(items)) /\ IsFiniteSet(1 .. Len(lost))
  BY <1>1, FS_Interval
<1> QED
  BY <1>2, <1>3, FS_Subset, FS_CardinalityType

(* Queueing a free makes it pending (or lost) once; queueing an allocation *)
(* changes neither count.                                                  *)
LEMMA EnqueueCount ==
    ASSUME StateInv, NEW t \in Threads, item[t] \in WorkItem, FinishEnqueue(t),
           NEW a \in Addr
    PROVE  /\ Cardinality(PendingFrees(a)') \in Nat
           /\ Cardinality(LostFrees(a)') \in Nat
           /\ Cardinality(PendingFrees(a)') + Cardinality(LostFrees(a)') =
                 Cardinality(PendingFrees(a)) + Cardinality(LostFrees(a))
                 + (IF item[t].type = "free" /\ item[t].addr = a THEN 1 ELSE 0)
<1>a. /\ Len(items) \in Nat /\ Len(lost) \in Nat
      /\ head \in Nat /\ head <= Len(items) /\ head' = head
  BY EnqueueEffect DEF StateInv, TypeOK, QueueType
<1>b. /\ IsFiniteSet(PendingFrees(a)) /\ Cardinality(PendingFrees(a)) \in Nat
      /\ IsFiniteSet(LostFrees(a)) /\ Cardinality(LostFrees(a)) \in Nat
  BY FreesFinite
<1> DEFINE mine == item[t].type = "free" /\ item[t].addr = a
<1>1. CASE /\ lost' = lost
           /\ Len(items') = Len(items) + 1
           /\ \A i \in 1 .. Len(items) : items'[i] = items[i]
           /\ items'[Len(items) + 1] = item[t]
  <2>1. LostFrees(a)' = LostFrees(a)
    BY <1>1 DEF LostFrees
  <2>2. CASE mine
    <3>1. PendingFrees(a)' = PendingFrees(a) \cup {Len(items) + 1}
      BY <1>a, <1>1, <2>2 DEF PendingFrees
    <3>2. Len(items) + 1 \notin PendingFrees(a)
      BY <1>a DEF PendingFrees
    <3>3. Cardinality(PendingFrees(a)') = Cardinality(PendingFrees(a)) + 1
      BY <1>b, <3>1, <3>2, FS_AddElement
    <3> QED
      BY <1>b, <2>1, <2>2, <3>3
  <2>3. CASE ~mine
    <3>1. PendingFrees(a)' = PendingFrees(a)
      BY <1>a, <1>1, <2>3 DEF PendingFrees
    <3> QED
      BY <1>b, <2>1, <2>3, <3>1
  <2> QED
    BY <2>2, <2>3
<1>2. CASE /\ items' = items
           /\ Len(lost') = Len(lost) + 1
           /\ \A i \in 1 .. Len(lost) : lost'[i] = lost[i]
           /\ lost'[Len(lost) + 1] = item[t]
  <2>1. PendingFrees(a)' = PendingFrees(a)
    BY <1>a, <1>2 DEF PendingFrees
  <2>2. CASE mine
    <3>1. LostFrees(a)' = LostFrees(a) \cup {Len(lost) + 1}
      BY <1>a, <1>2, <2>2 DEF LostFrees
    <3>2. Len(lost) + 1 \notin LostFrees(a)
      BY <1>a DEF LostFrees
    <3>3. Cardinality(LostFrees(a)') = Cardinality(LostFrees(a)) + 1
      BY <1>b, <3>1, <3>2, FS_AddElement
    <3> QED
      BY <1>b, <2>1, <2>2, <3>3
  <2>3. CASE ~mine
    <3>1. LostFrees(a)' = LostFrees(a)
      BY <1>a, <1>2, <2>3 DEF LostFrees
    <3> QED
      BY <1>b, <2>1, <2>3, <3>1
  <2> QED
    BY <2>2, <2>3
<1> QED
  BY <1>1, <1>2, EnqueueEffect

(* Dequeueing a free takes it out of the pending ones; dequeueing an       *)
(* allocation changes nothing.                                             *)
LEMMA DequeueCount ==
    ASSUME StateInv, Dequeue, NEW a \in Addr
    PROVE  /\ Item \in WorkItem
           /\ LostFrees(a)' = LostFrees(a)
           /\ Cardinality(PendingFrees(a)') = Cardinality(PendingFrees(a))
                - (IF Item.type = "free" /\ Item.addr = a THEN 1 ELSE 0)
<1>a. /\ Len(items) \in Nat /\ head \in Nat /\ head < Len(items)
      /\ items' = items /\ lost' = lost /\ head' = head + 1
  BY DEF StateInv, TypeOK, QueueType, Dequeue
<1>b. IsFiniteSet(PendingFrees(a)) /\ Cardinality(PendingFrees(a)) \in Nat
  BY FreesFinite
<1>1. Item \in WorkItem
  BY <1>a DEF StateInv, TypeOK, QueueType, Item
<1>2. LostFrees(a)' = LostFrees(a)
  BY <1>a DEF LostFrees
<1>3. CASE Item.type = "free" /\ Item.addr = a
  <2>1. PendingFrees(a)' = PendingFrees(a) \ {head + 1} /\ head + 1 \in PendingFrees(a)
    BY <1>a, <1>3 DEF PendingFrees, Item
  <2> QED
    BY <1>b, <1>1, <1>2, <1>3, <2>1, FS_RemoveElement
<1>4. CASE ~(Item.type = "free" /\ Item.addr = a)
  <2>1. PendingFrees(a)' = PendingFrees(a)
    BY <1>a, <1>4 DEF PendingFrees, Item
  <2> QED
    BY <1>b, <1>1, <1>2, <1>4, <2>1
<1> QED
  BY <1>3, <1>4

(* Each step moves the balance of an address together with its tracking    *)
(* and its queued frees.                                                   *)
LEMMA ConservationStep == StateInv /\ Conservation /\ [Next]_vars => Conservation'
<1> SUFFICES ASSUME StateInv, Conservation, [Next]_vars, NEW a \in Addr
             PROVE  balance'[a] = (IF a \in Tracked' THEN 1 ELSE 0)
                       + Cardinality(PendingFrees(a)') + Cardinality(LostFrees(a)')
  BY DEF Conservation
<1> DEFINE Goal == balance'[a] = (IF a \in Tracked' THEN 1 ELSE 0)
                       + Cardinality(PendingFrees(a)') + Cardinality(LostFrees(a)')
<1>a. balance \in [Addr -> Int] /\ allocations \in [Tracked -> Nat]
  BY DEF StateInv, TypeOK, BooksType
<1>b. balance[a] = (IF a \in Tracked THEN 1 ELSE 0)
         + Cardinality(PendingFrees(a)) + Cardinality(LostFrees(a))
  BY DEF Conservation
<1>c. Cardinality(PendingFrees(a)) \in Nat /\ Cardinality(LostFrees(a)) \in Nat
  BY FreesFinite
<1>1. ASSUME UNCHANGED <<balance, allocations, items, head, lost>> PROVE Goal
  BY <1>b, <1>1 DEF Tracked, PendingFrees, LostFrees
<1>2. ASSUME NEW t \in Threads, FinishAddItem(t) PROVE Goal
  <2>1. item[t] \in WorkItem /\ item[t].type = "alloc"
    BY <1>2 DEF StateInv, ItemInv, FinishAddItem, AllocPcs
  <2>2. FinishEnqueue(t) /\ balance' = balance /\ allocations' = allocations
    BY <1>2 DEF FinishAddItem, books
  <2>3. Cardinality(PendingFrees(a)') + Cardinality(LostFrees(a)')
            = Cardinality(PendingFrees(a)) + Cardinality(LostFrees(a)) + 0
    BY <2>1, <2>2, EnqueueCount
  <2>4. Tracked' = Tracked
    BY <2>2 DEF Tracked
  <2>5. Cardinality(PendingFrees(a)') \in Nat /\ Cardinality(LostFrees(a)') \in Nat
    BY <2>1, <2>2, EnqueueCount
  <2> QED
    BY <1>b, <1>c, <2>2, <2>3, <2>4, <2>5
<1>3. ASSUME NEW t \in Threads, FinishSweepOne(t) PROVE Goal
  <2>1. /\ item[t] \in WorkItem /\ item[t].type = "free"
        /\ item[t].addr \in Tracked
    BY <1>3 DEF StateInv, ItemInv, SweepInv, FinishSweepOne
  <2>2. /\ FinishEnqueue(t) /\ balance' = balance
        /\ Tracked' = Tracked \ {item[t].addr}
    BY <1>3 DEF FinishSweepOne, Erase, Tracked
  <2>3. Cardinality(PendingFrees(a)') + Cardinality(LostFrees(a)')
            = Cardinality(PendingFrees(a)) + Cardinality(LostFrees(a))
              + (IF item[t].addr = a THEN 1 ELSE 0)
    BY <2>1, <2>2, EnqueueCount
  <2>5. Cardinality(PendingFrees(a)') \in Nat /\ Cardinality(LostFrees(a)') \in Nat
    BY <2>1, <2>2, EnqueueCount
  <2> QED
    BY <1>b, <1>c, <2>1, <2>2, <2>3, <2>5
<1>4. CASE WorkerFree
  <2>1. Dequeue /\ Item.type = "free" /\ allocations' = allocations
    BY <1>4 DEF WorkerFree
  <2>2. balance' = [balance EXCEPT ![Item.addr] = @ + (-1)]
    BY <1>4 DEF WorkerFree, Report
  <2>3. Item.addr \in Addr
    BY <2>1, DequeueCount DEF WorkItem
  <2>4. balance'[a] = IF a = Item.addr THEN balance[a] - 1 ELSE balance[a]
    BY <1>a, <2>2, <2>3
  <2>5. Tracked' = Tracked
    BY <2>1 DEF Tracked
  <2> QED
    BY <1>a, <1>b, <1>c, <2>1, <2>4, <2>5, DequeueCount
<1>5. CASE WorkerSkip
  <2>1. Dequeue /\ Item.type = "alloc" /\ Tracked' = Tracked /\ balance' = balance
    BY <1>5 DEF WorkerSkip, books, Tracked
  <2> QED
    BY <1>b, <1>c, <2>1, DequeueCount
<1>6. CASE WorkerAlloc
  <2>1. /\ Dequeue /\ Item.type = "alloc"
        /\ Item.addr \notin Tracked /\ Tracked' = Tracked \cup {Item.addr}
    BY <1>6 DEF WorkerAlloc, Tracked
  <2>2. balance' = [balance EXCEPT ![Item.addr] = @ + 1]
    BY <1>6 DEF WorkerAlloc, Report
  <2>3. balance'[a] = IF a = Item.addr THEN balance[a] + 1 ELSE balance[a]
    BY <1>a, <2>2
  <2> QED
    BY <1>a, <1>b, <1>c, <2>1, <2>3, DequeueCount
<1>7. CASE WorkerRealloc
  <2>1. /\ Dequeue /\ Item.type = "alloc"
        /\ Item.addr \in Tracked /\ Tracked' = Tracked
    BY <1>a, <1>7 DEF WorkerRealloc, Tracked
  <2>2. balance' = [balance EXCEPT ![Item.addr] = @ + 0]
    BY <1>7 DEF WorkerRealloc, Report
  <2>3. balance'[a] = balance[a]
    BY <1>a, <2>2
  <2> QED
    BY <1>b, <1>c, <2>1, <2>3, DequeueCount
<1>8. ASSUME NEW t \in Threads,
             \/ OnAllocation(t) \/ LockAddAlloc(t) \/ LockStopShared(t)
             \/ BeginAddItem(t) \/ OnGc(t) \/ SeeEmpty(t) \/ Mark(t)
             \/ BeginSweepOne(t) \/ UnlockGc(t) \/ GcReturn(t)
      PROVE  Goal
  BY <1>1, <1>8 DEF OnAllocation, LockAddAlloc, LockStopShared, BeginAddItem,
        OnGc, SeeEmpty, Mark, BeginSweepOne, UnlockGc, GcReturn, queue, books
<1>9. CASE OnFrame \/ WorkerTop \/ WorkerLock \/ WorkerEmpty \/ WorkerYield
  BY <1>1, <1>9 DEF OnFrame, WorkerTop, WorkerLock, WorkerEmpty, WorkerYield,
        queue, books
<1>10. CASE OnPause \/ ResumeApp \/ OnFindReferences \/ CommandStep
  BY <1>1, <1>10 DEF OnPause, ResumeApp, OnFindReferences, CommandStep, PauseApp,
        FindLock, FindCheck, FindWait, FindGcLock, FindGcUnlock, FindGcReturn,
        FindReadLock, FindDone, queue, books
<1>11. CASE UNCHANGED vars
  BY <1>1, <1>11 DEF vars, queue, books
<1> QED
  BY <1>2, <1>3, <1>4, <1>5, <1>6, <1>7, <1>8, <1>9, <1>10, <1>11
  DEF Next, CallbackStep, WorkerStep

-----------------------------------------------------------------------------
(* The same for bytes.                                                     *)

(* An item appended to a queue adds its size.                              *)
LEMMA AppendBytes ==
    ASSUME NEW s \in Seq(WorkItem), NEW e \in WorkItem, NEW S, S \subseteq 1 .. Len(s)
    PROVE  /\ SumFunctionOnSet(SizesOf(s), S) \in Int
           /\ SumFunctionOnSet(SizesOf(Append(s, e)), S) = SumFunctionOnSet(SizesOf(s), S)
           /\ SumFunctionOnSet(SizesOf(Append(s, e)), S \cup {Len(s) + 1}) =
                 e.size + SumFunctionOnSet(SizesOf(s), S)
<1> DEFINE n == Len(s) + 1
           f == SizesOf(s)
           g == SizesOf(Append(s, e))
<1>1. /\ Append(s, e) \in Seq(WorkItem) /\ Len(s) \in Nat
      /\ Len(Append(s, e)) = n /\ Append(s, e)[n] = e
      /\ \A i \in 1 .. Len(s) : Append(s, e)[i] = s[i]
  BY AppendFacts
<1>2. DOMAIN s = 1 .. Len(s) /\ DOMAIN Append(s, e) = 1 .. n
  BY <1>1
<1>3. \A i \in 1 .. Len(s) : s[i] \in WorkItem
  OBVIOUS
<1>4. e.size \in Nat /\ \A i \in 1 .. Len(s) : s[i].size \in Nat
  BY <1>3 DEF WorkItem
<1>5. \A i \in S : f[i] = s[i].size /\ g[i] = s[i].size
  BY <1>1, <1>2 DEF SizesOf
<1>6. g[n] = e.size
  BY <1>1, <1>2 DEF SizesOf
<1>7. \A i \in S : f[i] = g[i] /\ f[i] \in Int
  BY <1>4, <1>5
<1>8. IsFiniteSet(S) /\ n \notin S
  <2>1. IsFiniteSet(1 .. Len(s))
    BY <1>1, FS_Interval
  <2>2. IsFiniteSet(S)
    BY <2>1, FS_Subset
  <2> QED
    BY <1>1, <2>2
<1>9. \A i \in S \cup {n} : g[i] \in Int
  BY <1>4, <1>6, <1>7
<1> HIDE DEF f, g, n
<1>10. SumFunctionOnSet(f, S) \in Int
  BY <1>7, <1>8, SumInt
<1>11. SumFunctionOnSet(f, S) = SumFunctionOnSet(g, S)
  BY <1>7, <1>8, SumAgree
<1>12. SumFunctionOnSet(g, S \cup {n}) = g[n] + SumFunctionOnSet(g, S)
  BY <1>8, <1>9, SumAdd
<1> QED
  BY <1>6, <1>10, <1>11, <1>12 DEF f, g, n

(* The bytes queued and dropped are integers.                              *)
LEMMA BytesInt ==
    ASSUME StateInv, IsFiniteSet(Tracked)
    PROVE  TrackedBytes \in Int /\ QueuedBytes \in Int /\ DroppedBytes \in Int
<1>1. /\ items \in Seq(WorkItem) /\ lost \in Seq(WorkItem)
      /\ Len(items) \in Nat /\ head \in Nat
      /\ allocations \in [Tracked -> Nat]
  BY DEF StateInv, TypeOK, QueueType, BooksType
<1>2. QueuedFrees \subseteq 1 .. Len(items) /\ DroppedFrees \subseteq 1 .. Len(lost)
  BY <1>1 DEF QueuedFrees, DroppedFrees
<1>3. CASE WorkItem = {}
  <2>1. DroppedFrees = {} /\ QueuedFrees = {}
    BY <1>1, <1>3 DEF QueuedFrees, DroppedFrees
  <2> QED
    BY <1>1, <2>1, SumEmpty, SumInt DEF TrackedBytes, QueuedBytes, DroppedBytes
<1>4. CASE WorkItem # {}
  <2>1. PICK e \in WorkItem : TRUE
    BY <1>4
  <2>2. QueuedBytes \in Int /\ DroppedBytes \in Int
    BY <1>1, <1>2, <2>1, AppendBytes DEF QueuedBytes, DroppedBytes
  <2> QED
    BY <1>1, <2>2, SumInt DEF TrackedBytes
<1> QED
  BY <1>3, <1>4

(* Queueing a free moves its bytes into the queue or among the dropped.    *)
LEMMA EnqueueBytes ==
    ASSUME StateInv, NEW t \in Threads, item[t] \in WorkItem, FinishEnqueue(t)
    PROVE  /\ QueuedBytes' \in Int /\ DroppedBytes' \in Int
           /\ QueuedBytes' + DroppedBytes' = QueuedBytes + DroppedBytes
                 + (IF item[t].type = "free" THEN item[t].size ELSE 0)
<1> DEFINE e == item[t]
<1>1. /\ items \in Seq(WorkItem) /\ lost \in Seq(WorkItem) /\ e \in WorkItem
      /\ Len(items) \in Nat /\ Len(lost) \in Nat /\ head \in Nat /\ head <= Len(items)
      /\ head' = head
  BY DEF StateInv, TypeOK, QueueType, FinishEnqueue
<1>2. QueuedFrees \subseteq 1 .. Len(items) /\ DroppedFrees \subseteq 1 .. Len(lost)
  BY <1>1 DEF QueuedFrees, DroppedFrees
<1>3. QueuedBytes \in Int /\ DroppedBytes \in Int /\ e.size \in Nat
  BY <1>1, <1>2, AppendBytes DEF QueuedBytes, DroppedBytes, WorkItem
<1>4. /\ Len(Append(items, e)) = Len(items) + 1
      /\ \A i \in 1 .. Len(items) : Append(items, e)[i] = items[i]
      /\ Append(items, e)[Len(items) + 1] = e
  BY <1>1, AppendFacts
<1>5. /\ Len(Append(lost, e)) = Len(lost) + 1
      /\ \A i \in 1 .. Len(lost) : Append(lost, e)[i] = lost[i]
      /\ Append(lost, e)[Len(lost) + 1] = e
  BY <1>1, AppendFacts
<1> HIDE DEF e
<1>6. CASE items' = Append(items, e) /\ lost' = lost
  <2>1. DroppedBytes' = DroppedBytes
    BY <1>6 DEF DroppedBytes, DroppedFrees
  <2>2. QueuedFrees' = IF e.type = "free" THEN QueuedFrees \cup {Len(items) + 1}
                                          ELSE QueuedFrees
    <3>1. QueuedFrees' = {i \in head + 1 .. Len(items) + 1 : Append(items, e)[i].type = "free"}
      BY <1>1, <1>4, <1>6 DEF QueuedFrees
    <3> QED
      BY <1>1, <1>4, <3>1 DEF QueuedFrees
  <2>3. QueuedBytes' = SumFunctionOnSet(SizesOf(Append(items, e)), QueuedFrees')
    BY <1>6 DEF QueuedBytes
  <2>4. QueuedBytes' = QueuedBytes + (IF e.type = "free" THEN e.size ELSE 0)
    <3>1. CASE e.type = "free"
      <4>1. QueuedBytes' = e.size + QueuedBytes
        BY <1>1, <1>2, <2>2, <2>3, <3>1, AppendBytes DEF QueuedBytes
      <4> QED
        BY <1>3, <3>1, <4>1
    <3>2. CASE e.type # "free"
      <4>1. QueuedBytes' = QueuedBytes
        BY <1>1, <1>2, <2>2, <2>3, <3>2, AppendBytes DEF QueuedBytes
      <4> QED
        BY <1>3, <3>2, <4>1
    <3> QED
      BY <3>1, <3>2
  <2> QED
    BY <1>3, <2>1, <2>4 DEF e
<1>7. CASE items' = items /\ lost' = Append(lost, e)
  <2>1. QueuedBytes' = QueuedBytes
    BY <1>1, <1>7 DEF QueuedBytes, QueuedFrees
  <2>2. DroppedFrees' = IF e.type = "free" THEN DroppedFrees \cup {Len(lost) + 1}
                                           ELSE DroppedFrees
    <3>1. DroppedFrees' = {i \in 1 .. Len(lost) + 1 : Append(lost, e)[i].type = "free"}
      BY <1>1, <1>5, <1>7 DEF DroppedFrees
    <3> QED
      BY <1>1, <1>5, <3>1 DEF DroppedFrees
  <2>3. DroppedBytes' = SumFunctionOnSet(SizesOf(Append(lost, e)), DroppedFrees')
    BY <1>7 DEF DroppedBytes
  <2>4. DroppedBytes' = DroppedBytes + (IF e.type = "free" THEN e.size ELSE 0)
    <3>1. CASE e.type = "free"
      <4>1. DroppedBytes' = e.size + DroppedBytes
        BY <1>1, <1>2, <2>2, <2>3, <3>1, AppendBytes DEF DroppedBytes
      <4> QED
        BY <1>3, <3>1, <4>1
    <3>2. CASE e.type # "free"
      <4>1. DroppedBytes' = DroppedBytes
        BY <1>1, <1>2, <2>2, <2>3, <3>2, AppendBytes DEF DroppedBytes
      <4> QED
        BY <1>3, <3>2, <4>1
    <3> QED
      BY <3>1, <3>2
  <2> QED
    BY <1>3, <2>1, <2>4 DEF e
<1> QED
  BY <1>6, <1>7 DEF FinishEnqueue, e

(* Dequeueing a free takes its bytes out of the queue.                     *)
LEMMA DequeueBytes ==
    ASSUME StateInv, Dequeue
    PROVE  /\ DroppedBytes' = DroppedBytes
           /\ Item \in WorkItem /\ Item.size \in Nat
           /\ Item.type = "free" => QueuedBytes' = QueuedBytes - Item.size
           /\ Item.type # "free" => QueuedBytes' = QueuedBytes
<1>1. /\ items \in Seq(WorkItem) /\ Len(items) \in Nat /\ head \in Nat /\ head < Len(items)
      /\ items' = items /\ lost' = lost /\ head' = head + 1
  BY DEF StateInv, TypeOK, QueueType, Dequeue
<1>2. Item \in WorkItem
  BY <1>1 DEF Item
<1>3. Item.size \in Nat
  BY <1>2 DEF WorkItem
<1>4. DroppedBytes' = DroppedBytes
  BY <1>1 DEF DroppedBytes, DroppedFrees
<1>5. QueuedFrees' = QueuedFrees \ {head + 1} /\ (Item.type = "free" <=> head + 1 \in QueuedFrees)
  BY <1>1 DEF QueuedFrees, Item
<1> DEFINE f == SizesOf(items)
<1>6. IsFiniteSet(QueuedFrees) /\ \A i \in QueuedFrees : f[i] \in Int
  <2>1. QueuedFrees \subseteq 1 .. Len(items) /\ DOMAIN items = 1 .. Len(items)
    BY <1>1 DEF QueuedFrees
  <2>2. \A i \in 1 .. Len(items) : items[i] \in WorkItem
    BY <1>1
  <2>3. \A i \in 1 .. Len(items) : items[i].size \in Nat
    BY <2>2 DEF WorkItem
  <2>4. IsFiniteSet(1 .. Len(items))
    BY <1>1, FS_Interval
  <2>5. IsFiniteSet(QueuedFrees)
    BY <2>1, <2>4, FS_Subset
  <2>6. \A i \in 1 .. Len(items) : f[i] = items[i].size
    BY <2>1 DEF SizesOf
  <2> HIDE DEF f
  <2> QED
    BY <2>1, <2>3, <2>5, <2>6
<1>7. f[head + 1] = Item.size
  BY <1>1 DEF Item, SizesOf
<1>8. /\ QueuedBytes = SumFunctionOnSet(f, QueuedFrees)
      /\ QueuedBytes' = SumFunctionOnSet(f, QueuedFrees \ {head + 1})
  BY <1>1, <1>5 DEF QueuedBytes
<1> HIDE DEF f
<1>9. /\ SumFunctionOnSet(f, QueuedFrees) \in Int
      /\ SumFunctionOnSet(f, QueuedFrees \ {head + 1}) \in Int
  BY <1>6, SumInt, FS_RemoveElement
<1>10. CASE Item.type = "free"
  <2>1. QueuedBytes = Item.size + QueuedBytes'
    BY <1>5, <1>6, <1>7, <1>8, <1>10, SumRemove
  <2>2. QueuedBytes' = QueuedBytes - Item.size
    BY <1>3, <1>8, <1>9, <2>1
  <2> QED
    BY <1>2, <1>3, <1>4, <1>10, <2>2
<1>11. CASE Item.type # "free"
  <2>1. QueuedFrees \ {head + 1} = QueuedFrees
    BY <1>5, <1>11
  <2>2. QueuedBytes' = QueuedBytes /\ QueuedBytes \in Int
    BY <1>8, <1>9, <2>1
  <2> QED
    BY <1>2, <1>3, <1>4, <1>11, <2>2
<1> QED
  BY <1>10, <1>11

(* What one step does to m_allocations, in bytes.                          *)
LEMMA MapBytes ==
    ASSUME StateInv, IsFiniteSet(Tracked), NEW a
    PROVE  /\ a \in Tracked /\ Erase(a) =>
                 TrackedBytes' \in Int /\ TrackedBytes = allocations[a] + TrackedBytes'
           /\ \A n \in Nat : a \in Tracked /\ allocations' = [allocations EXCEPT ![a] = n] =>
                 TrackedBytes' \in Int /\ TrackedBytes' + allocations[a] = TrackedBytes + n
           /\ \A n \in Nat : a \notin Tracked
                   /\ allocations' = [b \in Tracked \cup {a} |-> IF b = a THEN n ELSE allocations[b]] =>
                 TrackedBytes' = TrackedBytes + n
<1>0. allocations \in [Tracked -> Nat]
  BY DEF StateInv, TypeOK, BooksType
<1>1. \A b \in Tracked : allocations[b] \in Int
  BY <1>0
<1>2. ASSUME a \in Tracked, Erase(a)
      PROVE  TrackedBytes' \in Int /\ TrackedBytes = allocations[a] + TrackedBytes'
  <2>1. /\ Tracked' = Tracked \ {a}
        /\ \A b \in Tracked : b # a => allocations'[b] = allocations[b]
    BY <1>2 DEF Erase, Tracked
  <2>2. SumFunctionOnSet(allocations, Tracked)
            = allocations[a] + SumFunctionOnSet(allocations', Tracked \ {a})
    BY <1>1, <1>2, <2>1, SumWithout
  <2>3. SumFunctionOnSet(allocations', Tracked \ {a}) \in Int
    <3>1. IsFiniteSet(Tracked \ {a})
      BY FS_RemoveElement
    <3> QED
      BY <1>1, <2>1, <3>1, SumInt
  <2> QED
    BY <2>1, <2>2, <2>3 DEF TrackedBytes
<1>3. ASSUME NEW n \in Nat, a \in Tracked, allocations' = [allocations EXCEPT ![a] = n]
      PROVE  TrackedBytes' \in Int /\ TrackedBytes' + allocations[a] = TrackedBytes + n
  <2>0. a \in Tracked
    BY <1>3
  <2>1. /\ Tracked' = Tracked /\ allocations'[a] = n /\ allocations'[a] \in Int
        /\ \A b \in Tracked : b # a => allocations'[b] = allocations[b]
    BY <1>0, <1>3 DEF Tracked
  <2>2. SumFunctionOnSet(allocations, Tracked)
            = allocations[a] + SumFunctionOnSet(allocations', Tracked \ {a})
    BY <1>1, <2>0, <2>1, SumWithout
  <2>3. \A b \in Tracked : allocations'[b] \in Int
    BY <1>1, <2>1
  <2>4. SumFunctionOnSet(allocations', Tracked)
            = allocations'[a] + SumFunctionOnSet(allocations', Tracked \ {a})
    BY <2>0, <2>3, SumRemove
  <2>5. SumFunctionOnSet(allocations', Tracked \ {a}) \in Int
    <3>1. IsFiniteSet(Tracked \ {a})
      BY FS_RemoveElement
    <3> QED
      BY <2>3, <3>1, SumInt
  <2> DEFINE rest == SumFunctionOnSet(allocations', Tracked \ {a})
  <2>6. TrackedBytes = allocations[a] + rest /\ TrackedBytes' = n + rest
    BY <2>1, <2>2, <2>4 DEF TrackedBytes
  <2> HIDE DEF rest
  <2>7. rest \in Int /\ allocations[a] \in Int
    BY <1>1, <1>3, <2>5 DEF rest
  <2> QED
    BY <2>6, <2>7
<1>4. ASSUME NEW n \in Nat, a \notin Tracked,
             allocations' = [b \in Tracked \cup {a} |-> IF b = a THEN n ELSE allocations[b]]
      PROVE  TrackedBytes' = TrackedBytes + n
  <2>1. /\ Tracked' = Tracked \cup {a} /\ allocations'[a] = n
        /\ \A b \in Tracked : allocations'[b] = allocations[b]
    BY <1>4 DEF Tracked
  <2> QED
    BY <1>1, <1>4, <2>1, SumExtend DEF TrackedBytes
<1> QED
  BY <1>2, <1>3, <1>4

(* The inductive part: finiteness and the sizes of the frees under way.    *)
LEMMA BytesInvStep == StateInv /\ BytesInv /\ [Next]_vars => BytesInv'
<1> SUFFICES ASSUME StateInv, BytesInv, [Next]_vars PROVE BytesInv'
  OBVIOUS
<1>a. /\ pc \in [Threads -> {"idle"} \cup AllocPcs \cup GcPcs]
      /\ item \in [Threads -> WorkItem \cup {NoItem}]
      /\ allocations \in [Tracked -> Nat] /\ todo \subseteq Addr
  BY DEF StateInv, TypeOK, ControlType, QueueType, BooksType
<1>b. /\ IsFiniteSet(Tracked)
      /\ \A t \in Threads : pc[t] = "gc_enqueue" => item[t].size = allocations[item[t].addr]
      /\ \A t \in Threads : pc[t] \in {"gc_sweep", "gc_enqueue"} => gcMutex = t
      /\ wpc = "dequeue" => gcMutex = "worker"
  BY DEF StateInv, BytesInv, LockInv
<1> USE DEF locks, queue, books, gcv, cmdv
<1>1. ASSUME UNCHANGED allocations,
             \A t \in Threads : pc'[t] = "gc_enqueue" =>
                 pc[t] = "gc_enqueue" /\ item'[t] = item[t]
      PROVE  BytesInv'
  BY <1>b, <1>1 DEF BytesInv, Tracked
<1>2. ASSUME NEW t \in Threads, BeginSweepOne(t) PROVE BytesInv'
  <2>1. PICK a \in todo :
          item' = [item EXCEPT ![t] = [type |-> "free", frame |-> gcFrame,
                      addr |-> a, size |-> allocations[a], stopword |-> FALSE]]
    BY <1>2 DEF BeginSweepOne
  <2>2. item'[t].size = allocations[item'[t].addr]
    BY <1>a, <2>1
  <2>3. \A u \in Threads \ {t} : item'[u] = item[u] /\ pc'[u] = pc[u]
    BY <1>a, <1>2, <2>1 DEF BeginSweepOne, Goto
  <2>4. allocations' = allocations
    BY <1>2 DEF BeginSweepOne
  <2> QED
    BY <1>b, <2>2, <2>3, <2>4 DEF BytesInv, Tracked
<1>3. ASSUME NEW t \in Threads, FinishSweepOne(t) PROVE BytesInv'
  <2>1. \A u \in Threads : pc'[u] # "gc_enqueue"
    BY <1>a, <1>b, <1>3 DEF FinishSweepOne, Goto
  <2>2. Tracked' = Tracked \ {item[t].addr}
    BY <1>3 DEF FinishSweepOne, Erase, Tracked
  <2> QED
    BY <1>b, <2>1, <2>2, FS_RemoveElement DEF BytesInv
<1>4. CASE WorkerAlloc \/ WorkerRealloc
  <2>1. \A u \in Threads : pc'[u] # "gc_enqueue"
    BY <1>b, <1>4, ThreadsAssumption DEF WorkerAlloc, WorkerRealloc, Dequeue
  <2>2. Tracked' = Tracked \/ Tracked' = Tracked \cup {Item.addr}
    BY <1>a, <1>4 DEF WorkerAlloc, WorkerRealloc, Tracked
  <2> QED
    BY <1>b, <2>1, <2>2, FS_AddElement DEF BytesInv
<1>5. ASSUME NEW t \in Threads,
             \/ OnAllocation(t) \/ LockAddAlloc(t) \/ LockStopShared(t)
             \/ BeginAddItem(t) \/ FinishAddItem(t)
      PROVE  BytesInv'
  BY <1>a, <1>1, <1>5 DEF OnAllocation, LockAddAlloc, LockStopShared, BeginAddItem,
        FinishAddItem, Goto
<1>6. ASSUME NEW t \in Threads,
             OnGc(t) \/ SeeEmpty(t) \/ Mark(t) \/ UnlockGc(t) \/ GcReturn(t)
      PROVE  BytesInv'
  BY <1>a, <1>1, <1>6 DEF OnGc, SeeEmpty, Mark, UnlockGc, GcReturn, Goto
<1>7. CASE \/ OnFrame \/ WorkerTop \/ WorkerLock \/ WorkerEmpty \/ WorkerYield
           \/ WorkerFree \/ WorkerSkip
  BY <1>1, <1>7 DEF OnFrame, WorkerTop, WorkerLock, WorkerEmpty, WorkerYield,
        WorkerFree, WorkerSkip, Dequeue
<1>8. CASE OnPause \/ ResumeApp \/ OnFindReferences \/ CommandStep
  BY <1>1, <1>8 DEF OnPause, ResumeApp, OnFindReferences, CommandStep, PauseApp,
        FindLock, FindCheck, FindWait, FindGcLock, FindGcUnlock, FindGcReturn,
        FindReadLock, FindDone
<1>9. CASE UNCHANGED vars
  BY <1>1, <1>9 DEF vars
<1> QED
  BY <1>2, <1>3, <1>4, <1>5, <1>6, <1>7, <1>8, <1>9 DEF Next, CallbackStep, WorkerStep

(* Three numbers added up either way.                                      *)
LEMMA Regroup ==
    ASSUME NEW x \in Int, NEW y \in Int, NEW z \in Int
    PROVE  (x + y) + z = x + (y + z)
OBVIOUS

(* Each step moves the byte counters together with the tracked objects and *)
(* the queued frees.                                                       *)
LEMMA BytesStep ==
    StateInv /\ BytesInv /\ BytesConserved /\ [Next]_vars => BytesConserved'
<1> SUFFICES ASSUME StateInv, BytesInv, BytesConserved, [Next]_vars
             PROVE  allocated' - freed' = TrackedBytes' + QueuedBytes' + DroppedBytes'
  BY DEF BytesConserved
<1> DEFINE Goal == allocated' - freed' = TrackedBytes' + QueuedBytes' + DroppedBytes'
<1>a. /\ allocated \in Nat /\ freed \in Nat
      /\ TrackedBytes \in Int /\ QueuedBytes \in Int /\ DroppedBytes \in Int
      /\ allocated - freed = TrackedBytes + QueuedBytes + DroppedBytes
  BY BytesInt DEF StateInv, TypeOK, BooksType, BytesInv, BytesConserved
<1>b. IsFiniteSet(Tracked) /\ \A b \in Tracked : allocations[b] \in Nat
  BY DEF StateInv, TypeOK, BooksType, BytesInv
<1>c. ASSUME allocations' = allocations PROVE TrackedBytes' = TrackedBytes
  BY <1>c DEF TrackedBytes, Tracked
<1>1. ASSUME UNCHANGED <<allocated, freed, allocations, items, head, lost>> PROVE Goal
  <2>1. QueuedBytes' = QueuedBytes /\ DroppedBytes' = DroppedBytes
    BY <1>1 DEF QueuedBytes, DroppedBytes, QueuedFrees, DroppedFrees
  <2> QED
    BY <1>a, <1>c, <1>1, <2>1
<1>2. ASSUME NEW t \in Threads, FinishAddItem(t) PROVE Goal
  <2>1. item[t] \in WorkItem /\ item[t].type = "alloc"
    BY <1>2 DEF StateInv, ItemInv, FinishAddItem, AllocPcs
  <2>2. FinishEnqueue(t) /\ allocated' = allocated /\ freed' = freed /\ allocations' = allocations
    BY <1>2 DEF FinishAddItem, books
  <2>3. QueuedBytes' + DroppedBytes' = QueuedBytes + DroppedBytes
    <3>1. QueuedBytes' + DroppedBytes' = QueuedBytes + DroppedBytes + 0
      BY <2>1, <2>2, EnqueueBytes
    <3> QED
      BY <1>a, <3>1
  <2>4. QueuedBytes' \in Int /\ DroppedBytes' \in Int
    BY <2>1, <2>2, EnqueueBytes
  <2>5. TrackedBytes' = TrackedBytes
    BY <1>c, <2>2
  <2>6. TrackedBytes' + QueuedBytes' + DroppedBytes'
            = TrackedBytes' + (QueuedBytes' + DroppedBytes')
    BY <1>a, <2>4, <2>5, Regroup
  <2> QED
    BY <1>a, <2>2, <2>3, <2>5, <2>6
<1>3. ASSUME NEW t \in Threads, FinishSweepOne(t) PROVE Goal
  <2>1. /\ item[t] \in WorkItem /\ item[t].type = "free"
        /\ item[t].addr \in Tracked /\ item[t].size = allocations[item[t].addr]
    BY <1>3 DEF StateInv, ItemInv, SweepInv, BytesInv, FinishSweepOne
  <2>2. FinishEnqueue(t) /\ allocated' = allocated /\ freed' = freed /\ Erase(item[t].addr)
    BY <1>3 DEF FinishSweepOne
  <2>3. QueuedBytes' + DroppedBytes' = QueuedBytes + DroppedBytes + item[t].size
    BY <2>1, <2>2, EnqueueBytes
  <2>4. QueuedBytes' \in Int /\ DroppedBytes' \in Int
    BY <2>1, <2>2, EnqueueBytes
  <2>5. TrackedBytes = item[t].size + TrackedBytes'
    BY <1>b, <2>1, <2>2, MapBytes
  <2>6. item[t].size \in Nat
    BY <1>b, <2>1
  <2>7. TrackedBytes' \in Int
    BY <1>b, <2>1, <2>2, MapBytes
  <2>8. TrackedBytes' + QueuedBytes' + DroppedBytes'
            = TrackedBytes' + (QueuedBytes + DroppedBytes + item[t].size)
    BY <2>3, <2>4, <2>7, Regroup
  <2> QED
    BY <1>a, <2>2, <2>5, <2>6, <2>7, <2>8
<1>4. CASE WorkerFree
  <2>1. /\ Dequeue /\ Item.type = "free" /\ allocations' = allocations
        /\ allocated' = allocated /\ freed' = freed + Item.size
    BY <1>4 DEF WorkerFree
  <2>2. /\ DroppedBytes' = DroppedBytes /\ QueuedBytes' = QueuedBytes - Item.size
        /\ Item.size \in Nat
    BY <2>1, DequeueBytes
  <2> QED
    BY <1>a, <1>c, <2>1, <2>2
<1>5. CASE WorkerSkip
  <2>1. Dequeue /\ Item.type = "alloc" /\ UNCHANGED <<allocations, allocated, freed>>
    BY <1>5 DEF WorkerSkip, books
  <2>2. DroppedBytes' = DroppedBytes /\ QueuedBytes' = QueuedBytes
    BY <2>1, DequeueBytes
  <2> QED
    BY <1>a, <1>c, <2>1, <2>2
<1>6. CASE WorkerAlloc
  <2>1. /\ Dequeue /\ Item.type = "alloc" /\ Item.addr \notin Tracked
        /\ allocations' = [a \in Tracked \cup {Item.addr} |->
                              IF a = Item.addr THEN Item.size ELSE allocations[a]]
        /\ allocated' = allocated + Item.size /\ freed' = freed
    BY <1>6 DEF WorkerAlloc
  <2>2. /\ DroppedBytes' = DroppedBytes /\ QueuedBytes' = QueuedBytes
        /\ Item.size \in Nat
    BY <2>1, DequeueBytes
  <2>3. TrackedBytes' = TrackedBytes + Item.size
    BY <1>b, <2>1, <2>2, MapBytes
  <2>4. TrackedBytes' + QueuedBytes' + DroppedBytes'
            = (TrackedBytes + QueuedBytes + DroppedBytes) + Item.size
    BY <1>a, <2>2, <2>3
  <2> QED
    BY <1>a, <2>1, <2>2, <2>4
<1>7. CASE WorkerRealloc
  <2>1. /\ Dequeue /\ Item.type = "alloc" /\ Item.addr \in Tracked
        /\ allocations' = [allocations EXCEPT ![Item.addr] = Item.size]
        /\ allocated' = allocated + Item.size /\ freed' = freed + allocations[Item.addr]
    BY <1>7 DEF WorkerRealloc, OldSize
  <2>2. /\ DroppedBytes' = DroppedBytes /\ QueuedBytes' = QueuedBytes
        /\ Item.size \in Nat
    BY <2>1, DequeueBytes
  <2>3. TrackedBytes' + allocations[Item.addr] = TrackedBytes + Item.size
    BY <1>b, <2>1, <2>2, MapBytes
  <2>4. allocations[Item.addr] \in Nat
    BY <1>b, <2>1
  <2>5. TrackedBytes' \in Int
    BY <1>b, <2>1, <2>2, MapBytes
  <2> QED
    BY <1>a, <2>1, <2>2, <2>3, <2>4, <2>5
<1>8. ASSUME NEW t \in Threads,
             \/ OnAllocation(t) \/ LockAddAlloc(t) \/ LockStopShared(t)
             \/ BeginAddItem(t) \/ OnGc(t) \/ SeeEmpty(t) \/ Mark(t)
             \/ BeginSweepOne(t) \/ UnlockGc(t) \/ GcReturn(t)
      PROVE  Goal
  BY <1>1, <1>8 DEF OnAllocation, LockAddAlloc, LockStopShared, BeginAddItem,
        OnGc, SeeEmpty, Mark, BeginSweepOne, UnlockGc, GcReturn, queue, books
<1>9. CASE OnFrame \/ WorkerTop \/ WorkerLock \/ WorkerEmpty \/ WorkerYield
  BY <1>1, <1>9 DEF OnFrame, WorkerTop, WorkerLock, WorkerEmpty, WorkerYield,
        queue, books
<1>10. CASE OnPause \/ ResumeApp \/ OnFindReferences \/ CommandStep
  BY <1>1, <1>10 DEF OnPause, ResumeApp, OnFindReferences, CommandStep, PauseApp,
        FindLock, FindCheck, FindWait, FindGcLock, FindGcUnlock, FindGcReturn,
        FindReadLock, FindDone, queue, books
<1>11. CASE UNCHANGED vars
  BY <1>1, <1>11 DEF vars, queue, books
<1> QED
  BY <1>2, <1>3, <1>4, <1>5, <1>6, <1>7, <1>8, <1>9, <1>10, <1>11
  DEF Next, CallbackStep, WorkerStep

-----------------------------------------------------------------------------
(* One step keeps StateInv, and it holds initially.                        *)
LEMMA StateStep == StateInv /\ [Next]_vars => StateInv'
  BY LockStep, SweepStep, ItemStep, ControlTypeStep, QueueTypeStep, BooksTypeStep
  DEF StateInv, TypeOK

LEMMA StateInit == Init => StateInv
<1> SUFFICES ASSUME Init PROVE StateInv
  OBVIOUS
<1>1. ControlType
  BY DEF Init, ControlType, AllocPcs, GcPcs, CmdPcs
<1>2. QueueType
  BY DEF Init, QueueType
<1>3. BooksType
  BY DEF Init, BooksType, Tracked
<1>4. LockInv /\ ItemInv /\ SweepInv
  BY DEF Init, LockInv, ItemInv, SweepInv, AllocPcs
<1> QED
  BY <1>1, <1>2, <1>3, <1>4 DEF StateInv, TypeOK

(* The lock discipline, the shape of the work items and the types hold     *)
(* throughout: StateInv is inductive.                                      *)
THEOREM StateInvariant == Spec => []StateInv
  BY StateInit, StateStep, PTL DEF Spec

(* The types hold in every reachable state.                                *)
THEOREM TypeCorrect == Spec => []TypeOK
<1>1. StateInv => TypeOK
  BY DEF StateInv
<1> QED
  BY <1>1, StateInvariant, PTL

(* The stream of reported allocations and frees is balanced against the    *)
(* tracked objects and the queued frees, whatever the threads do.          *)
THEOREM ConservationHolds == Spec => []Conservation
<1>1. Init => Conservation
  <2> SUFFICES ASSUME Init, NEW a \in Addr
               PROVE  balance[a] = (IF a \in Tracked THEN 1 ELSE 0)
                         + Cardinality(PendingFrees(a)) + Cardinality(LostFrees(a))
    BY DEF Conservation
  <2>1. PendingFrees(a) = {} /\ LostFrees(a) = {} /\ a \notin Tracked
    BY DEF Init, PendingFrees, LostFrees, Tracked
  <2> QED
    BY <2>1, FS_EmptySet DEF Init
<1> QED
  BY <1>1, StateInvariant, ConservationStep, PTL DEF Spec

(* m_allocated - m_freed is at all times what is tracked, queued to be     *)
(* freed or was dropped.                                                   *)
THEOREM BytesAreConserved == Spec => []BytesConserved
<1>1. Init => BytesInv /\ BytesConserved
  <2> SUFFICES ASSUME Init PROVE BytesInv /\ BytesConserved
    OBVIOUS
  <2>1. Tracked = {} /\ QueuedFrees = {} /\ DroppedFrees = {}
    BY DEF Init, Tracked, QueuedFrees, DroppedFrees
  <2>2. BytesInv
    BY <2>1, FS_EmptySet DEF Init, BytesInv
  <2>3. TrackedBytes = 0 /\ QueuedBytes = 0 /\ DroppedBytes = 0
    BY <2>1, SumEmpty DEF TrackedBytes, QueuedBytes, DroppedBytes
  <2> QED
    BY <2>2, <2>3 DEF Init, BytesConserved
<1>2. StateInv /\ (BytesInv /\ BytesConserved) /\ [Next]_vars => (BytesInv /\ BytesConserved)'
  BY BytesInvStep, BytesStep
<1> QED
  BY <1>1, <1>2, StateInvariant, PTL DEF Spec
(* Allocations enter the queue in the order of their frames.               *)
THEOREM AllocationOrder == Spec => []AllocFramesInOrder
<1>1. Init => FrameInv /\ AllocFramesInOrder
  BY DEF Init, FrameInv, AllocFramesInOrder
<1>2. StateInv /\ (FrameInv /\ AllocFramesInOrder) /\ [Next]_vars
         => (FrameInv /\ AllocFramesInOrder)'
  BY FrameStep
<1> QED
  BY <1>1, <1>2, StateInvariant, PTL DEF Spec

(* While the client keeps the app paused, no allocation enters the queue.  *)
THEOREM PauseIsTight == Spec => PauseBlocksAllocations
<1> DEFINE Tight == paused /\ paused' =>
              \A i \in Len(items) + 1 .. Len(items') : items'[i].type = "free"
<1>1. StateInv /\ [Next]_vars => [Tight]_vars
  <2> SUFFICES ASSUME StateInv, Next, paused, paused',
                      NEW i \in Len(items) + 1 .. Len(items')
               PROVE  items'[i].type = "free"
    OBVIOUS
  <2>a. Len(items) \in Nat
    BY DEF StateInv, TypeOK, QueueType
  <2>1. ASSUME items' = items PROVE FALSE
    BY <2>a, <2>1
  <2>2. ASSUME NEW t \in Threads, FinishAddItem(t) PROVE FALSE
    BY <2>2 DEF StateInv, LockInv, FinishAddItem
  <2>3. ASSUME NEW t \in Threads, FinishSweepOne(t) PROVE items'[i].type = "free"
    <3>1. item[t] \in WorkItem /\ item[t].type = "free" /\ FinishEnqueue(t)
      BY <2>3 DEF StateInv, ItemInv, FinishSweepOne
    <3>2. Len(items') = Len(items) + 1 /\ items'[Len(items) + 1] = item[t]
      BY <2>1, <3>1, EnqueueEffect
    <3> QED
      BY <2>a, <3>1, <3>2
  <2>4. ASSUME NEW t \in Threads,
               \/ OnAllocation(t) \/ LockAddAlloc(t) \/ LockStopShared(t)
               \/ BeginAddItem(t) \/ OnGc(t) \/ SeeEmpty(t) \/ Mark(t)
               \/ BeginSweepOne(t) \/ UnlockGc(t) \/ GcReturn(t)
        PROVE  items' = items
    BY <2>4 DEF OnAllocation, LockAddAlloc, LockStopShared, BeginAddItem, OnGc,
          SeeEmpty, Mark, BeginSweepOne, UnlockGc, GcReturn, queue
  <2>5. ASSUME OnFrame \/ WorkerStep PROVE items' = items
    BY <2>5 DEF OnFrame, WorkerStep, WorkerTop, WorkerLock, WorkerEmpty,
          WorkerYield, WorkerFree, WorkerSkip, WorkerAlloc, WorkerRealloc,
          Dequeue, queue
  <2>6. ASSUME OnPause \/ ResumeApp \/ OnFindReferences \/ CommandStep
        PROVE  items' = items
    BY <2>6 DEF OnPause, ResumeApp, OnFindReferences, CommandStep, PauseApp,
          FindLock, FindCheck, FindWait, FindGcLock, FindGcUnlock,
          FindGcReturn, FindReadLock, FindDone, queue
  <2> QED
    BY <2>1, <2>2, <2>3, <2>4, <2>5, <2>6 DEF Next, CallbackStep
<1> QED
  BY <1>1, StateInvariant, PTL DEF Spec, PauseBlocksAllocations

(* A reference search in a running app holds m_gc_mutex, and whoever       *)
(* changes m_allocations holds it too: the map is stable under the search. *)
THEOREM LockedReadIsStable == Spec => UnpausedReadUndisturbed
<1> DEFINE Stable == cpc = "find_read" /\ ~paused => allocations' = allocations
<1>1. StateInv /\ [Next]_vars => [Stable]_vars
  <2> SUFFICES ASSUME StateInv, Next, cpc = "find_read", ~paused
               PROVE  allocations' = allocations
    OBVIOUS
  <2>1. gcMutex = "cmd"
    BY DEF StateInv, LockInv
  <2>2. /\ \A t \in Threads : pc[t] # "gc_enqueue"
        /\ wpc # "dequeue"
    BY <2>1, ThreadsAssumption DEF StateInv, LockInv
  <2>3. ASSUME NEW t \in Threads, OnAllocation(t) \/ OnGc(t) \/ CallbackStep(t)
        PROVE  allocations' = allocations
    BY <2>2, <2>3 DEF CallbackStep, OnAllocation, LockAddAlloc, LockStopShared,
          BeginAddItem, FinishAddItem, OnGc, SeeEmpty, Mark, BeginSweepOne,
          FinishSweepOne, UnlockGc, GcReturn, books
  <2>4. ASSUME OnFrame \/ WorkerStep PROVE allocations' = allocations
    BY <2>2, <2>4 DEF OnFrame, WorkerStep, WorkerTop, WorkerLock, WorkerEmpty,
          WorkerYield, WorkerFree, WorkerSkip, WorkerAlloc, WorkerRealloc,
          Dequeue, books
  <2>5. ASSUME OnPause \/ ResumeApp \/ OnFindReferences \/ CommandStep
        PROVE  allocations' = allocations
    BY <2>5 DEF OnPause, ResumeApp, OnFindReferences, CommandStep, PauseApp,
          FindLock, FindCheck, FindWait, FindGcLock, FindGcUnlock,
          FindGcReturn, FindReadLock, FindDone, books
  <2> QED
    BY <2>3, <2>4, <2>5 DEF Next
<1> QED
  BY <1>1, StateInvariant, PTL DEF Spec, UnpausedReadUndisturbed
=============================================================================
