-------------------------- MODULE ClientRefinement --------------------------
(***************************************************************************)
(* The recording client implements the batched log of EventLog, for any    *)
(* flush limit and any stream of events: every step of the client is a     *)
(* step of the log or leaves the log alone.                                *)
(***************************************************************************)
EXTENDS ClientProofs, SequenceTheorems

(* The events of a table are a sequence as long as the table.              *)
LEMMA TableEvents ==
    ASSUME NEW table \in Seq([event: Event, type: Nat \cup {NoType}])
    PROVE  LET events == [i \in 1..Len(table) |-> table[i].event]
           IN  /\ events \in Seq(Event)
               /\ Len(events) = Len(table)
               /\ \A i \in 1..Len(table) : events[i] = table[i].event
<1> DEFINE Row == [event: Event, type: Nat \cup {NoType}]
<1>1. \A r \in Row : r.event \in Event
  OBVIOUS
<1>2. table \in Seq(Row)
  OBVIOUS
<1> HIDE DEF Row
<1>3. Len(table) \in Nat /\ \A i \in 1..Len(table) : table[i].event \in Event
  BY <1>1, <1>2
<1> QED
  BY <1>3

LEMMA StoredEventsType ==
    ASSUME stored \in Seq([event: Event, type: Nat \cup {NoType}])
    PROVE  /\ StoredEvents \in Seq(Event)
           /\ Len(StoredEvents) = Len(stored)
           /\ \A i \in 1..Len(stored) : StoredEvents[i] = stored[i].event
BY TableEvents DEF StoredEvents

(* Saving a buffer appends it to the stored events.                        *)
LEMMA SavedLog ==
    ASSUME StoreTypeOK, IdsInv,
           NEW buf \in Seq(Event), NEW f \in Frames, NEW a \in Nat, NEW r \in Nat,
           NEW s \in Int, Save(buf, f, a, r, s)
    PROVE  StoredEvents' = StoredEvents \o buf
<1>1. /\ StoreTypeOK'
      /\ Len(stored') = Len(stored) + Len(buf)
      /\ \A i \in 1..Len(stored) : stored'[i] = stored[i]
      /\ \A i \in 1..Len(buf) : stored'[Len(stored) + i].event = buf[i]
  BY SaveFacts
<1>2. /\ StoredEvents \in Seq(Event) /\ Len(StoredEvents) = Len(stored)
      /\ \A i \in 1..Len(stored) : StoredEvents[i] = stored[i].event
  BY StoredEventsType DEF StoreTypeOK
<1>3. /\ StoredEvents' \in Seq(Event) /\ Len(StoredEvents') = Len(stored')
      /\ \A i \in 1..Len(stored') : StoredEvents'[i] = stored'[i].event
  <2>1. stored' \in Seq([event: Event, type: Nat \cup {NoType}])
    BY <1>1 DEF StoreTypeOK
  <2> QED
    BY <2>1, TableEvents DEF StoredEvents
<1> DEFINE p == StoredEvents
           q == StoredEvents'
<1>4. /\ p \in Seq(Event) /\ q \in Seq(Event) /\ Len(q) = Len(p) + Len(buf)
      /\ \A i \in 1..Len(p) : q[i] = p[i]
      /\ \A i \in 1..Len(buf) : q[Len(p) + i] = buf[i]
  <2>1. Len(stored) \in Nat /\ Len(buf) \in Nat
    BY <1>2
  <2>2. ASSUME NEW i \in 1..Len(p) PROVE q[i] = p[i]
    <3>1. i \in 1..Len(stored')
      BY <1>1, <1>2, <2>1
    <3> QED
      BY <1>1, <1>2, <1>3, <3>1
  <2>3. ASSUME NEW i \in 1..Len(buf) PROVE q[Len(p) + i] = buf[i]
    <3>1. Len(stored) + i \in 1..Len(stored')
      BY <1>1, <2>1
    <3> QED
      BY <1>1, <1>2, <1>3, <3>1
  <2> QED
    BY <1>1, <1>2, <1>3, <2>2, <2>3
<1> HIDE DEF p, q
<1>5. p \o buf \in Seq(Event) /\ Len(p \o buf) = Len(p) + Len(buf)
  BY <1>4
<1>6. \A i \in 1..Len(q) : q[i] = (p \o buf)[i]
  <2> TAKE i \in 1..Len(q)
  <2>0. Len(p) \in Nat /\ Len(buf) \in Nat
    BY <1>4
  <2>1. CASE i \in 1..Len(p)
    <3>1. (p \o buf)[i] = p[i]
      BY <1>4, <2>1
    <3> QED
      BY <1>4, <2>1, <3>1
  <2>2. CASE i \notin 1..Len(p)
    <3>1. i - Len(p) \in 1..Len(buf) /\ i = Len(p) + (i - Len(p))
      BY <1>4, <2>0, <2>2
    <3>2. PICK j \in 1..Len(buf) : i = Len(p) + j
      BY <3>1
    <3>3. (p \o buf)[Len(p) + j] = buf[j]
      BY <1>4
    <3> QED
      BY <1>4, <3>2, <3>3
  <2> QED
    BY <2>1, <2>2
<1>7. q = p \o buf
  BY <1>4, <1>5, <1>6, SeqEqual
<1> QED
  BY <1>7 DEF p, q

(* Steps that leave the buffer and the table alone leave the log alone.    *)
LEMMA LogStutters ==
    ASSUME UNCHANGED <<buffer, stored>>
    PROVE  UNCHANGED Log!logVars
BY DEF Log!logVars, StoredEvents

(* The first event of a frame ends the batch, or begins one.               *)
LEMMA BeginsFrameLog ==
    ASSUME ClientInv, NEW e \in Event, EventBeginsFrame(e)
    PROVE  Log!LogNext
<1> USE DEF ClientInv
<1>1. /\ buffer \in Seq(Event) /\ Len(buffer) \in Nat /\ e.frame # prevFrame
      /\ \A i \in 1..Len(buffer) : buffer[i].frame = prevFrame
  BY DEF TypeOK, BufferIsLatestFrame, EventBeginsFrame
<1>2. buffer' = <<e>>
  <2>1. Unsaved = <<>>
    BY EmptyBeforeFirst DEF Unsaved
  <2> QED
    BY <2>1 DEF EventBeginsFrame
<1>3. StoredEvents' = StoredEvents \o buffer
  <2>1. CASE prevFrame = NoFrame
    <3>1. buffer = <<>> /\ stored' = stored
      BY <2>1, EmptyBeforeFirst DEF EventBeginsFrame, TrySave, db
    <3>2. StoredEvents' = StoredEvents
      BY <3>1 DEF StoredEvents
    <3>3. StoredEvents \in Seq(Event)
      BY StoredEventsType DEF TypeOK
    <3> DEFINE p == StoredEvents
    <3> HIDE DEF p
    <3>4. p \in Seq(Event) => p \o <<>> = p
      OBVIOUS
    <3> QED
      BY <3>1, <3>2, <3>3, <3>4 DEF p
  <2>2. CASE prevFrame # NoFrame
    <3>1. Save(buffer, prevFrame, allocs, frees, total)
      BY <2>2 DEF EventBeginsFrame, TrySave
    <3>2. /\ prevFrame \in Frames /\ allocs \in Nat /\ frees \in Nat /\ total \in Int
      BY <2>2 DEF TypeOK
    <3> QED
      BY <1>1, <3>1, <3>2, StoreTypes, SavedLog
  <2> QED
    BY <2>1, <2>2
<1>4. CASE buffer = <<>>
  <2>1. Log!Joins(e) /\ Len(buffer) < FlushLimit
    BY <1>4, ClientSizesAssumption DEF Log!Joins
  <2>2. buffer' = Append(buffer, e)
    BY <1>2, <1>4
  <2>3. StoredEvents' = StoredEvents
    <3>1. StoredEvents \in Seq(Event)
      BY StoredEventsType DEF TypeOK
    <3> DEFINE p == StoredEvents
    <3> HIDE DEF p
    <3>2. p \in Seq(Event) => p \o <<>> = p
      OBVIOUS
    <3> QED
      BY <1>3, <1>4, <3>1, <3>2 DEF p
  <2> QED
    BY <2>1, <2>2, <2>3 DEF Log!LogNext, Log!Gather
<1>5. CASE buffer # <<>>
  <2>1. 1 \in 1..Len(buffer)
    BY <1>1, <1>5
  <2>2. ~Log!Joins(e)
    BY <1>1, <2>1 DEF Log!Joins
  <2> QED
    BY <1>2, <1>3, <2>2 DEF Log!LogNext, Log!WriteFrame
<1> QED
  BY <1>4, <1>5

(* Another event of the frame joins the batch or fills it.                 *)
LEMMA OfFrameLog ==
    ASSUME ClientInv, NEW e \in Event, EventOfFrame(e)
    PROVE  Log!LogNext
<1> USE DEF ClientInv
<1> DEFINE buf == Append(buffer, e)
<1>1. /\ buffer \in Seq(Event) /\ Len(buffer) \in Nat /\ Len(buffer) <= FlushLimit
      /\ e.frame = prevFrame /\ prevFrame \in Frames
      /\ \A i \in 1..Len(buffer) : buffer[i].frame = prevFrame
  BY SMTT(30), EventFacts DEF TypeOK, BufferIsLatestFrame, EventOfFrame
<1>2. Log!Joins(e)
  BY <1>1 DEF Log!Joins
<1>3. buf \in Seq(Event) /\ Len(buf) = Len(buffer) + 1
  BY <1>1, AppendFacts
<1>4. allocs' \in Nat /\ frees' \in Nat /\ total' \in Int
  <2>1. Allocs(e) \in Nat /\ Frees(e) \in Nat /\ SizeOf(e) \in Int
    BY EventFacts
  <2>2. /\ allocs' = allocs + Allocs(e) /\ frees' = frees + Frees(e)
        /\ total' = total + SizeOf(e)
    BY DEF EventOfFrame
  <2>3. allocs \in Nat /\ frees \in Nat /\ total \in Int
    BY DEF TypeOK
  <2> QED
    BY <2>1, <2>2, <2>3
<1>5. CASE Len(buf) > FlushLimit
  <2>1. ~(Len(buf) <= FlushLimit) /\ Len(buffer) = FlushLimit
    BY <1>1, <1>3, <1>5, ClientSizesAssumption
  <2>2. Save(buf, prevFrame, allocs', frees', total') /\ buffer' = <<>>
    BY <2>1 DEF EventOfFrame, Flushed
  <2> HIDE DEF buf
  <2>3. StoredEvents' = StoredEvents \o buf
    BY <1>1, <1>3, <1>4, <2>2, StoreTypes, SavedLog
  <2> QED
    BY <1>2, <2>1, <2>2, <2>3 DEF buf, Log!LogNext, Log!WriteFull
<1>6. CASE Len(buf) <= FlushLimit
  <2>1. ~(Len(buf) > FlushLimit) /\ Len(buffer) < FlushLimit
    BY <1>1, <1>3, <1>6, ClientSizesAssumption
  <2>2. buffer' = buf /\ stored' = stored
    BY <2>1 DEF EventOfFrame, db
  <2>3. StoredEvents' = StoredEvents
    BY <2>2 DEF StoredEvents
  <2> QED
    BY <1>2, <2>1, <2>2, <2>3 DEF Log!LogNext, Log!Gather
<1> QED
  BY <1>3, <1>5, <1>6, ClientSizesAssumption

(* A session begins with an empty table.                                   *)
LEMMA StartLog ==
    ASSUME Start \/ StartFails
    PROVE  Log!LogNext
<1>1. stored' = <<>> /\ buffer' = buffer
  BY DEF Start, StartFails, frameV
<1>2. StoredEvents' = <<>>
  BY <1>1 DEF StoredEvents
<1> QED
  BY <1>1, <1>2 DEF Log!LogNext, Log!NewLog

(* Every step of the client is a step of the log or a stutter.             *)
LEMMA ClientSimulates ==
    ASSUME ClientInv, [Next]_vars
    PROVE  [Log!LogNext]_(Log!logVars)
<1>1. ASSUME NEW e \in Event, EventBeginsFrame(e)
      PROVE  Log!LogNext
  BY <1>1, BeginsFrameLog
<1>2. ASSUME NEW e \in Event, EventOfFrame(e)
      PROVE  Log!LogNext
  BY <1>2, OfFrameLog
<1>3. CASE Start \/ StartFails
  BY <1>3, StartLog
<1>4. CASE Leave
  <2>1. UNCHANGED <<buffer, stored>>
    BY <1>4, LeaveStep DEF frameV, db
  <2> QED
    BY <2>1, LogStutters
<1>5. CASE \/ \E e \in Event : ReceiveEvent(e) \/ EventBreaks(e)
           \/ \E id \in Ids : ReceiveReply(id)
           \/ BeginAnswer \/ FinishAnswer \/ Poll
           \/ BeginStop \/ FinishStop \/ BeginCommand \/ FinishCommand
           \/ UNCHANGED vars
  <2>1. UNCHANGED <<buffer, stored>>
    BY <1>5 DEF ReceiveEvent, EventBreaks, ReceiveReply, BeginAnswer, FinishAnswer, Poll,
                BeginStop, FinishStop, BeginCommand, FinishCommand, vars, frameV, db
  <2> QED
    BY <2>1, LogStutters
<1> QED
  BY <1>1, <1>2, <1>3, <1>4, <1>5 DEF Next, MessageStep, UserStep

(* process_messages, start and stop implement the batched log.             *)
THEOREM RecordingImplementsLog == Spec => ImplementsEventLog
<1>1. Init => Log!LogInit
  BY DEF Init, Log!LogInit, StoredEvents
<1>2. ClientInv /\ [Next]_vars => [Log!LogNext]_(Log!logVars)
  BY ClientSimulates
<1> QED
  BY <1>1, <1>2, ClientInvariant, PTL DEF Spec, ImplementsEventLog, Log!LogSpec
=============================================================================
