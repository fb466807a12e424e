------------------------------- MODULE Client -------------------------------
(***************************************************************************)
(* The recording half of the profiler client (mono_profiler_client):       *)
(* process_messages takes messages from the network's read buffer, gathers *)
(* the events of a frame, saves them to the database with the frame's      *)
(* statistics when the next frame begins, and hands answers to the         *)
(* callbacks of pending commands.  The user interface starts and stops     *)
(* sessions and issues commands on a thread of its own.                    *)
(***************************************************************************)
EXTENDS Integers, Sequences, FiniteSets, Functions

CONSTANTS
    Types,       \* type names; callstacks are interned by the same code
    Sizes,       \* object sizes
    FlushLimit,  \* events that may wait for their frame to end (10000)
    MaxFrame,    \* bound on the frames the server reports
    MaxMessages, \* bound on the events the server sends
    MaxRequests, \* bound on the commands issued
    MaxSessions  \* bound on the sessions started

ASSUME ClientSizesAssumption == Sizes \subseteq Nat /\ FlushLimit \in Nat \ {0}
ASSUME ClientBoundsAssumption ==
    /\ MaxFrame \in Nat /\ MaxMessages \in Nat
    /\ MaxRequests \in Nat /\ MaxSessions \in Nat

VARIABLES
    inbox,      \* the network's m_read_buffer
    receiving,  \* the network thread runs
    netStop,    \* network::m_stop
    sent,       \* how many events the server has sent
    asked,      \* requests that have reached the server and wait there
    session,    \* how many sessions were started
    stop,       \* m_stop
    thread,     \* the message thread
    ui,         \* the thread of the user interface
    buffer,     \* m_frame_events
    prevFrame,  \* m_prev_frame
    allocs,     \* m_frame_allocs
    frees,      \* m_frame_frees
    total,      \* m_size_running_total
    hasMin,     \* m_has_min_frame
    minFrame,   \* m_min_frame
    maxFrame,   \* m_max_frame
    typeId,     \* m_type_to_id_map
    nextTypeId, \* m_next_type_id
    stored,     \* database: rows of ProfilerEvents
    stats,      \* database: rows of FrameStats by frame
    dbTypes,    \* database: rows of ObjectTypes
    commands,   \* ids in m_commands
    nextId,     \* m_next_request_id
    raced,      \* history: m_commands was used by two threads at once
    called,     \* history: requests whose callback was called
    recorded,   \* history: the events that belong into the database
    ordered     \* history: the frames of recorded never decrease

net     == <<inbox, receiving, netStop, sent, asked>>
frameV  == <<buffer, prevFrame, allocs, frees, total, hasMin, minFrame, maxFrame>>
types   == <<typeId, nextTypeId>>
db      == <<stored, stats, dbTypes>>
cmds    == <<commands, nextId, raced, called>>
vars == <<net, session, stop, thread, ui, frameV, types, db, cmds, recorded, ordered>>

Frames == 0..MaxFrame
Ids    == 0..(MaxRequests - 1)
NoFrame == -1   \* 0xFFFFFFFFFFFFFFFF
NoType  == -1   \* NULL in a free event's row

Event == [kind: {"alloc"}, frame: Frames, size: Sizes, type: Types]
         \cup [kind: {"free"}, frame: Frames, size: Sizes]
Reply == [kind: {"reply"}, id: Ids]

Init ==
    /\ inbox = <<>> /\ receiving = FALSE /\ netStop = FALSE /\ sent = 0 /\ asked = {}
    /\ session = 0 /\ stop = FALSE /\ thread = "none" /\ ui = "idle"
    /\ buffer = <<>> /\ prevFrame = NoFrame /\ allocs = 0 /\ frees = 0 /\ total = 0
    /\ hasMin = FALSE /\ minFrame = 0 /\ maxFrame = 0
    /\ typeId = <<>> /\ nextTypeId = 0
    /\ stored = <<>> /\ stats = <<>> /\ dbTypes = {}
    /\ commands = {} /\ nextId = 0
    /\ raced = FALSE /\ called = {}
    /\ recorded = <<>> /\ ordered = TRUE

-----------------------------------------------------------------------------
(* The server and the network.                                             *)

(* A message arrives and is put into the read buffer.                      *)
ReceiveEvent(e) ==
    /\ receiving
    /\ sent < MaxMessages
    /\ sent' = sent + 1
    /\ inbox' = Append(inbox, e)
    /\ UNCHANGED <<receiving, netStop, asked, session, stop, thread, ui, frameV, types,
                   db, cmds, recorded, ordered>>

ReceiveReply(id) ==
    /\ receiving
    /\ id \in asked
    /\ asked' = asked \ {id}
    /\ inbox' = Append(inbox, [kind |-> "reply", id |-> id])
    /\ UNCHANGED <<receiving, netStop, sent, session, stop, thread, ui, frameV, types,
                   db, cmds, recorded, ordered>>

-----------------------------------------------------------------------------
(* save_frame_events.                                                      *)

IsAlloc(e) == e.kind = "alloc"

(* Types in buf that have no id yet, and the first event that needs each.  *)
NewTypes(buf) ==
    {t \in Types \ DOMAIN typeId : \E i \in DOMAIN buf : IsAlloc(buf[i]) /\ buf[i].type = t}
FirstUse(buf, t) ==
    CHOOSE i \in DOMAIN buf :
        /\ IsAlloc(buf[i]) /\ buf[i].type = t
        /\ \A j \in 1..(i - 1) : ~(IsAlloc(buf[j]) /\ buf[j].type = t)

(* m_next_type_id++ for every new type, in the order of the events         *)
TypeIds(buf) ==
    [t \in DOMAIN typeId \cup NewTypes(buf) |->
        IF t \in DOMAIN typeId THEN typeId[t]
        ELSE nextTypeId
             + Cardinality({u \in NewTypes(buf) : FirstUse(buf, u) < FirstUse(buf, t)})]

(* a row of ProfilerEvents for every event                                 *)
Rows(buf) ==
    [i \in DOMAIN buf |->
        [event |-> buf[i],
         type  |-> IF IsAlloc(buf[i]) THEN TypeIds(buf)[buf[i].type] ELSE NoType]]

(* INSERT OR REPLACE INTO FrameStats                                       *)
FrameStats(f, a, r, s) ==
    [g \in DOMAIN stats \cup {f} |->
        IF g = f THEN [allocs |-> a, frees |-> r, size |-> s] ELSE stats[g]]

-----------------------------------------------------------------------------
(* Seeded faults: variants of definitions below, each with a plausible     *)
(* slip in the code it stands for.  No action uses them; putting one in    *)
(* the place of its original must break the property it is kept for.       *)

(* The statistics are kept when a frame begins.                            *)
Restarted_Kept(n) == n

(* A flush in the middle of a frame does not clear the buffer.             *)
Flushed_Kept(buf) == buf

(* The types that are new are not written to the database.                 *)
InternTypes_CacheOnly(buf) == dbTypes

(* An answered command stays in m_commands.                                *)
Forget_Kept(id) == commands

(* An empty read buffer is polled again without a look at m_stop.          *)
Leaving_NotTested == FALSE

(* The frees are added to the running total.                               *)
SizeOf_Unsigned(e) == e.size

-----------------------------------------------------------------------------
(* m_frame_allocs and m_frame_frees start at 0 in every frame              *)
Restarted(n) == 0

(* m_frame_events.clear() after a flush                                    *)
Flushed(buf) == <<>>

(* insert_type for every new type                                          *)
InternTypes(buf) ==
    dbTypes \cup {<<TypeIds(buf)[t], t>> : t \in NewTypes(buf)}

(* m_prev_frame = frame                                                    *)
FrameBegun(f) == f

(* what an event adds to m_size_running_total                              *)
SizeOf(e) == IF IsAlloc(e) THEN e.size ELSE -e.size

(* m_commands.erase                                                        *)
Forget(id) == commands \ {id}

(* the loop ends when there is no message and m_stop is set                *)
Leaving == inbox = <<>> /\ stop

(* save_frame_events writes buf and the statistics of frame f              *)
Save(buf, f, a, r, s) ==
    /\ stored' = stored \o Rows(buf)
    /\ stats' = FrameStats(f, a, r, s)
    /\ dbTypes' = InternTypes(buf)
    /\ typeId' = TypeIds(buf)
    /\ nextTypeId' = nextTypeId + Cardinality(NewTypes(buf))

(* What try_save_events(f) does when f is another frame than the previous  *)
(* event's; before the first event there is nothing to save.               *)
TrySave(f) ==
    /\ hasMin' = TRUE
    /\ minFrame' = IF hasMin THEN minFrame ELSE f
    /\ maxFrame' = IF f > maxFrame THEN f ELSE maxFrame
    /\ \/ prevFrame # NoFrame /\ Save(buffer, prevFrame, allocs, frees, total)
       \/ prevFrame = NoFrame /\ UNCHANGED <<types, db>>
    /\ prevFrame' = FrameBegun(f)

(* Seeded fault: what was saved stays in the buffer.                       *)
Unsaved_Kept == buffer

(* What it leaves in the buffer.                                           *)
Unsaved == IF prevFrame = NoFrame THEN buffer ELSE <<>>

-----------------------------------------------------------------------------
(* process_messages.                                                       *)

(* The next message is event e.                                            *)
NextEvent(e) ==
    /\ thread = "run"
    /\ inbox # <<>>
    /\ e = Head(inbox)
    /\ e.kind \in {"alloc", "free"}
    /\ inbox' = Tail(inbox)

Allocs(e) == IF IsAlloc(e) THEN 1 ELSE 0
Frees(e)  == IF IsAlloc(e) THEN 0 ELSE 1

(* An allocation of an earlier frame than the last event breaks into the   *)
(* debugger, which ends the process.                                       *)
Backwards(e) == IsAlloc(e) /\ e.frame < prevFrame

EventBreaks(e) ==
    /\ NextEvent(e)
    /\ Backwards(e)
    /\ thread' = "broken" /\ ui' = "gone" /\ receiving' = FALSE
    /\ UNCHANGED <<netStop, sent, asked, session, stop, frameV, types, db, cmds, recorded,
                   ordered>>

Record(e) ==
    /\ recorded' = Append(recorded, e)
    /\ ordered' = (ordered /\ (recorded # <<>> => recorded[Len(recorded)].frame <= e.frame))

(* The first event of a frame: what was gathered for the previous one is   *)
(* saved.                                                                  *)
EventBeginsFrame(e) ==
    /\ NextEvent(e)
    /\ ~Backwards(e)
    /\ e.frame # prevFrame
    /\ TrySave(e.frame)
    /\ buffer' = Append(Unsaved, e)
    /\ allocs' = Restarted(allocs) + Allocs(e) /\ frees' = Restarted(frees) + Frees(e)
    /\ total' = total + SizeOf(e)
    /\ Record(e)
    /\ UNCHANGED <<receiving, netStop, sent, asked, session, stop, thread, ui, cmds>>

(* Another event of the frame; too many of them are saved at once.         *)
EventOfFrame(e) ==
    /\ NextEvent(e)
    /\ ~Backwards(e)
    /\ e.frame = prevFrame
    /\ allocs' = allocs + Allocs(e) /\ frees' = frees + Frees(e)
    /\ total' = total + SizeOf(e)
    /\ LET buf == Append(buffer, e)
       IN  \/ /\ Len(buf) > FlushLimit
              /\ Save(buf, prevFrame, allocs', frees', total')
              /\ buffer' = Flushed(buf)
           \/ /\ Len(buf) <= FlushLimit
              /\ buffer' = buf
              /\ UNCHANGED <<types, db>>
    /\ Record(e)
    /\ UNCHANGED <<receiving, netStop, sent, asked, session, stop, thread, ui, prevFrame,
                   hasMin, minFrame, maxFrame, cmds>>

(* get_command begins: it looks the id up in m_commands.                   *)
BeginAnswer ==
    /\ thread = "run"
    /\ inbox # <<>>
    /\ Head(inbox).kind = "reply"
    /\ thread' = "getting"
    /\ raced' = (raced \/ ui = "adding")
    /\ UNCHANGED <<net, session, stop, ui, frameV, types, db, commands, nextId, called,
                   recorded, ordered>>

(* The command is removed and its callback is called; an answer to no      *)
(* pending command is ignored.                                             *)
FinishAnswer ==
    /\ thread = "getting"
    /\ thread' = "run"
    /\ inbox' = Tail(inbox)
    /\ LET id == Head(inbox).id
       IN  /\ called' = called \cup ({id} \cap commands)
           /\ commands' = Forget(id)
    /\ UNCHANGED <<receiving, netStop, sent, asked, session, stop, ui, frameV, types, db,
                   nextId, raced, recorded, ordered>>

(* No message and no request to stop: yield and look again.                *)
Poll == thread = "run" /\ inbox = <<>> /\ ~stop /\ UNCHANGED vars

(* The loop ends with try_save_events(m_frame_events[0].frame).            *)
Leave ==
    /\ thread = "run"
    /\ Leaving
    /\ thread' = "done"
    /\ IF buffer # <<>> /\ buffer[1].frame # prevFrame
       THEN /\ TrySave(buffer[1].frame)
            /\ buffer' = Unsaved
            /\ allocs' = Restarted(allocs) /\ frees' = Restarted(frees)
            /\ total' = total
       ELSE UNCHANGED <<frameV, types, db>>
    /\ UNCHANGED <<net, session, stop, ui, cmds, recorded, ordered>>

-----------------------------------------------------------------------------
(* The user interface.                                                     *)

(* start: connect, a new database, a new message thread.  What the client  *)
(* has gathered, its caches and its stop flags stay as they are.           *)
Start ==
    /\ ui = "idle" /\ thread = "none"
    /\ session < MaxSessions
    /\ session' = session + 1
    /\ receiving' = ~netStop
    /\ stored' = <<>> /\ stats' = <<>> /\ dbTypes' = {}
    /\ thread' = "run"
    /\ recorded' = buffer
    /\ UNCHANGED <<inbox, netStop, sent, asked, stop, ui, frameV, types, cmds, ordered>>

(* The database cannot be created although the connection stands.  The     *)
(* socket stays open, so every later connect, and with it start, fails;    *)
(* the network keeps receiving what nobody takes.                          *)
StartFails ==
    /\ ui = "idle" /\ thread = "none"
    /\ session < MaxSessions
    /\ session' = session + 1
    /\ receiving' = ~netStop
    /\ stored' = <<>> /\ stats' = <<>> /\ dbTypes' = {}
    /\ thread' = "failed"
    /\ recorded' = buffer
    /\ UNCHANGED <<inbox, netStop, sent, asked, stop, ui, frameV, types, cmds, ordered>>

(* stop, offered while a session runs: set m_stop and join the message     *)
(* thread ...                                                              *)
BeginStop ==
    /\ ui = "idle" /\ thread \in {"run", "getting", "done"}
    /\ stop' = TRUE
    /\ ui' = "joining"
    /\ UNCHANGED <<net, session, thread, frameV, types, db, cmds, recorded, ordered>>

(* ... then stop the network, which goes on receiving until here.          *)
FinishStop ==
    /\ ui = "joining" /\ thread = "done"
    /\ thread' = "none"
    /\ netStop' = TRUE /\ receiving' = FALSE
    /\ asked' = {}
    /\ ui' = "idle"
    /\ UNCHANGED <<inbox, sent, session, stop, frameV, types, db, cmds, recorded, ordered>>

(* find_objects_references, pause_app, resume_app: add_command ...         *)
BeginCommand ==
    /\ ui = "idle" /\ session > 0
    /\ nextId < MaxRequests
    /\ nextId' = nextId + 1
    /\ ui' = "adding"
    /\ raced' = (raced \/ thread = "getting")
    /\ UNCHANGED <<net, session, stop, thread, frameV, types, db, commands, called,
                   recorded, ordered>>

(* ... and send it.  After a race the command may be missing.              *)
FinishCommand ==
    /\ ui = "adding"
    /\ ui' = "idle"
    /\ LET id == nextId - 1
       IN  /\ \/ commands' = commands \cup {id}
              \/ raced /\ UNCHANGED commands
           /\ asked' = IF receiving THEN asked \cup {id} ELSE asked
    /\ UNCHANGED <<inbox, receiving, netStop, sent, session, stop, thread, frameV, types,
                   db, nextId, raced, called, recorded, ordered>>

-----------------------------------------------------------------------------
MessageStep ==
    \/ \E e \in Event : EventBreaks(e) \/ EventBeginsFrame(e) \/ EventOfFrame(e)
    \/ BeginAnswer \/ FinishAnswer \/ Poll \/ Leave

UserStep == Start \/ StartFails \/ BeginStop \/ FinishStop \/ BeginCommand \/ FinishCommand

Next ==
    \/ \E e \in Event : ReceiveEvent(e)
    \/ \E id \in Ids : ReceiveReply(id)
    \/ MessageStep \/ UserStep

Spec == Init /\ [][Next]_vars

(* The message thread keeps running, and so does a call of stop.           *)
FairSpec == Spec /\ WF_vars(MessageStep) /\ WF_vars(FinishStop)

-----------------------------------------------------------------------------
(* Properties.                                                             *)

(* Type invariant.                                                         *)
TypeOK ==
    /\ inbox \in Seq(Event \cup Reply) /\ receiving \in BOOLEAN /\ netStop \in BOOLEAN
    /\ sent \in 0..MaxMessages /\ asked \subseteq Ids
    /\ session \in 0..MaxSessions /\ stop \in BOOLEAN
    /\ thread \in {"none", "run", "getting", "done", "broken", "failed"}
    /\ thread = "getting" => inbox # <<>> /\ Head(inbox) \in Reply
    /\ ui \in {"idle", "joining", "adding", "gone"}
    /\ buffer \in Seq(Event) /\ Len(buffer) <= FlushLimit
    /\ prevFrame \in Frames \cup {NoFrame} /\ total \in Int
    /\ allocs \in Nat /\ frees \in Nat
    /\ hasMin \in BOOLEAN /\ minFrame \in Frames /\ maxFrame \in Frames
    /\ DOMAIN typeId \subseteq Types /\ nextTypeId \in Nat
    /\ \A t \in DOMAIN typeId : typeId[t] \in 0..(nextTypeId - 1)
    /\ stored \in Seq([event: Event, type: Nat \cup {NoType}])
    /\ DOMAIN stats \subseteq Frames
    /\ \A f \in DOMAIN stats : stats[f] \in [allocs: Nat, frees: Nat, size: Int]
    /\ dbTypes \subseteq Nat \X Types
    /\ nextId \in 0..MaxRequests /\ commands \subseteq 0..(nextId - 1)
    /\ called \subseteq 0..(nextId - 1) /\ raced \in BOOLEAN
    /\ ui = "adding" => nextId > 0
    /\ recorded \in Seq(Event) /\ ordered \in BOOLEAN

(* The database followed by the buffer is exactly the sequence of events   *)
(* processed in the session (after what an earlier session left in the     *)
(* buffer): saving at frame ends, flushing in mid-frame and both together  *)
(* lose, repeat and reorder nothing.                                       *)
Recorded ==
    /\ Len(recorded) = Len(stored) + Len(buffer)
    /\ \A i \in 1..Len(stored) : stored[i].event = recorded[i]
    /\ \A i \in 1..Len(buffer) : buffer[i] = recorded[Len(stored) + i]

(* Only events of the latest frame wait in the buffer, so nothing of an    *)
(* earlier frame can be lost when the thread ends.                         *)
BufferIsLatestFrame ==
    \A i \in 1..Len(buffer) : buffer[i].frame = prevFrame

(* In the first session the type id of a stored allocation is that of its  *)
(* type in the database, and ids are unique.                               *)
TypesResolve ==
    session <= 1 =>
        /\ \A i \in 1..Len(stored) :
              IsAlloc(stored[i].event) => <<stored[i].type, stored[i].event.type>> \in dbTypes
        /\ \A p, q \in dbTypes : p[1] = q[1] => p = q

(* Unless two threads were in m_commands at once, a request is pending or  *)
(* its callback has been called, and never both.                           *)
CommandsAccounted ==
    ~raced => /\ commands \cap called = {}
              /\ ui \in {"idle", "joining"} => commands \cup called = 0..(nextId - 1)

(* The number of stored events of a kind and frame.                        *)
Stored(kind, f) ==
    Cardinality({i \in 1..Len(stored) :
                    stored[i].event.kind = kind /\ stored[i].event.frame = f})

(* In a first session whose frames never decreased the statistics of a     *)
(* frame count its stored events, and every stored event has statistics.   *)
StatsExact ==
    session <= 1 /\ ordered =>
        /\ \A i \in 1..Len(stored) : stored[i].event.frame \in DOMAIN stats
        /\ \A f \in DOMAIN stats : /\ stats[f].allocs = Stored("alloc", f)
                                   /\ stats[f].frees = Stored("free", f)

(* What each stored event leaves allocated, and what those of frames up to *)
(* f add up to.                                                            *)
StoredBytes ==
    [i \in 1..Len(stored) |-> IF stored[i].event.kind = "alloc" THEN stored[i].event.size
                              ELSE -stored[i].event.size]
SizeUpTo(f) ==
    SumFunctionOnSet(StoredBytes, {i \in 1..Len(stored) : stored[i].event.frame <= f})

(* In a first session whose frames never decreased the size recorded for a *)
(* frame is what all its events and those of earlier frames add up to.     *)
SizesExact ==
    session <= 1 /\ ordered => \A f \in DOMAIN stats : stats[f].size = SizeUpTo(f)

(* The rows without what the client adds to them.                          *)
StoredEvents == [i \in 1..Len(stored) |-> stored[i].event]

Log == INSTANCE EventLog WITH Events <- Event, Limit <- FlushLimit,
                              log <- StoredEvents, pending <- buffer

(* Recording implements the batched log: whatever the order of frames, the *)
(* flushes of process_messages, the saves at frame ends, stops and further *)
(* sessions, the table of events grows only by whole runs of one frame.    *)
ImplementsEventLog == Log!LogSpec

(* A call of stop returns once the server falls silent.                    *)
StopReturns == (ui = "joining") ~> (ui \in {"idle", "gone"})

(* The message thread submits the last events before it quits.             *)
LastEventsSaved == thread = "done" => buffer = <<>>
=============================================================================
