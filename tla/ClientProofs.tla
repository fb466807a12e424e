---------------------------- MODULE ClientProofs ----------------------------
(***************************************************************************)
(* Proofs about the recording client: for any types, sizes, flush limit    *)
(* and bounds.                                                             *)
(***************************************************************************)
EXTENDS Client, SumTheorems

(* What every event has.                                                   *)
LEMMA EventFacts ==
    ASSUME NEW e \in Event
    PROVE  /\ e.frame \in Frames
           /\ e.kind \in {"alloc", "free"}
           /\ IsAlloc(e) => e.type \in Types
           /\ SizeOf(e) \in Int
           /\ Allocs(e) \in Nat /\ Frees(e) \in Nat
<1>1. /\ e.frame \in Frames /\ e.size \in Sizes /\ e.kind \in {"alloc", "free"}
      /\ e.kind = "alloc" => e.type \in Types
  BY DEF Event
<1>2. e.size \in Nat
  BY <1>1, ClientSizesAssumption
<1> QED
  BY <1>1, <1>2 DEF IsAlloc, SizeOf, Allocs, Frees

(* The types that are new in a buffer are finitely many.                   *)
LEMMA NewTypesFinite ==
    ASSUME NEW buf \in Seq(Event)
    PROVE  /\ IsFiniteSet(NewTypes(buf))
           /\ Cardinality(NewTypes(buf)) \in Nat
<1> DEFINE S == {buf[i].type : i \in 1..Len(buf)}
           f == [i \in 1..Len(buf) |-> buf[i].type]
<1>1. IsFiniteSet(1..Len(buf))
  BY FS_Interval
<1>2. f \in Surjection(1..Len(buf), S)
  BY DEF Surjection
<1>3. IsFiniteSet(S)
  BY <1>1, <1>2, FS_Surjection
<1>4. NewTypes(buf) \subseteq S
  BY DEF NewTypes
<1> QED
  BY <1>3, <1>4, FS_Subset, FS_CardinalityType

(* A new type is used by an event, and no two types by the same first one. *)
LEMMA FirstUseFacts ==
    ASSUME NEW buf \in Seq(Event), NEW t \in NewTypes(buf)
    PROVE  /\ FirstUse(buf, t) \in 1..Len(buf)
           /\ buf[FirstUse(buf, t)].type = t
<1> DEFINE S == {i \in 1..Len(buf) : IsAlloc(buf[i]) /\ buf[i].type = t}
<1>1. S # {} /\ S \subseteq Nat
  BY DEF NewTypes
<1>2. PICK i \in S : \A j \in S : i <= j
  BY <1>1, LeastNatural
<1>3. \A j \in 1..(i - 1) : ~(IsAlloc(buf[j]) /\ buf[j].type = t)
  BY <1>2
<1> QED
  BY <1>2, <1>3 DEF FirstUse

(* The ids a save hands out: those of known types stay, the new ones       *)
(* follow them without a gap, and none is given twice.                     *)
LEMMA TypeIdsFacts ==
    ASSUME NEW buf \in Seq(Event), nextTypeId \in Nat,
           \A t \in DOMAIN typeId : typeId[t] \in 0..(nextTypeId - 1),
           \A t, u \in DOMAIN typeId : typeId[t] = typeId[u] => t = u
    PROVE  LET ids == TypeIds(buf)
               next == nextTypeId + Cardinality(NewTypes(buf))
           IN  /\ DOMAIN ids = DOMAIN typeId \cup NewTypes(buf)
               /\ next \in Nat
               /\ \A t \in DOMAIN typeId : ids[t] = typeId[t]
               /\ \A t \in DOMAIN ids : ids[t] \in 0..(next - 1)
               /\ \A t, u \in DOMAIN ids : ids[t] = ids[u] => t = u
<1> DEFINE N == NewTypes(buf)
           F(t) == FirstUse(buf, t)
           B(t) == {u \in N : F(u) < F(t)}
           ids == TypeIds(buf)
<1>1. IsFiniteSet(N) /\ Cardinality(N) \in Nat
  BY NewTypesFinite
<1>2. \A t \in N : F(t) \in Nat
  BY FirstUseFacts
<1>3. \A t, u \in N : F(t) = F(u) => t = u
  BY FirstUseFacts
<1>4. DOMAIN typeId \cap N = {}
  BY DEF NewTypes
<1> HIDE DEF N, F
<1>5. ASSUME NEW t \in N
      PROVE  Cardinality(B(t)) \in Nat /\ Cardinality(B(t)) < Cardinality(N)
  <2>1. B(t) \in SUBSET N /\ t \notin B(t)
    BY <1>2
  <2>2. B(t) # N
    BY <2>1
  <2> HIDE DEF B
  <2>3. /\ IsFiniteSet(B(t)) /\ Cardinality(B(t)) <= Cardinality(N)
        /\ Cardinality(B(t)) # Cardinality(N)
    BY <1>1, <2>1, <2>2, FS_Subset
  <2>4. Cardinality(B(t)) \in Nat
    BY <2>3, FS_CardinalityType
  <2> QED
    BY <1>1, <2>3, <2>4
<1>6. ASSUME NEW t \in N, NEW u \in N, F(t) < F(u)
      PROVE  Cardinality(B(t)) < Cardinality(B(u))
  <2>1. B(t) \in SUBSET B(u) /\ t \in B(u) /\ t \notin B(t) /\ B(u) \in SUBSET N
    BY <1>2, <1>6
  <2>2. B(t) # B(u)
    BY <2>1
  <2>3. Cardinality(B(t)) \in Nat /\ Cardinality(B(u)) \in Nat
    BY <1>5
  <2> HIDE DEF B
  <2>4. IsFiniteSet(B(u))
    BY <1>1, <2>1, FS_Subset
  <2>5. Cardinality(B(t)) <= Cardinality(B(u)) /\ Cardinality(B(t)) # Cardinality(B(u))
    BY <2>1, <2>2, <2>4, FS_Subset
  <2> QED
    BY <2>3, <2>5
<1>7. \A t, u \in N : Cardinality(B(t)) = Cardinality(B(u)) => t = u
  <2> SUFFICES ASSUME NEW t \in N, NEW u \in N, Cardinality(B(t)) = Cardinality(B(u))
               PROVE  F(t) = F(u)
    BY <1>3
  <2>1. F(t) < F(u) \/ F(u) < F(t) \/ F(t) = F(u)
    BY <1>2
  <2> HIDE DEF B
  <2>2. Cardinality(B(t)) \in Nat /\ Cardinality(B(u)) \in Nat
    BY <1>5
  <2> QED
    BY <1>6, <2>1, <2>2
<1>8. /\ DOMAIN ids = DOMAIN typeId \cup N
      /\ \A t \in DOMAIN typeId : ids[t] = typeId[t]
      /\ \A t \in N : ids[t] = nextTypeId + Cardinality(B(t))
  BY <1>4 DEF TypeIds, N, F
<1> HIDE DEF B, ids
<1>9. \A t \in DOMAIN ids : ids[t] \in 0..(nextTypeId + Cardinality(N) - 1)
  BY <1>1, <1>5, <1>8
<1>10. \A t, u \in DOMAIN ids : ids[t] = ids[u] => t = u
  BY <1>5, <1>7, <1>8
<1> QED
  BY <1>1, <1>8, <1>9, <1>10 DEF N, ids

-----------------------------------------------------------------------------
(* The inductive invariant.                                                *)

(* Ids are unique.                                                         *)
IdsInv == \A t, u \in DOMAIN typeId : typeId[t] = typeId[u] => t = u

(* The cache of type ids and the database agree in a first session.        *)
ResolveInv ==
    session <= 1 =>
        /\ \A i \in 1..Len(stored) :
              IsAlloc(stored[i].event) =>
                  /\ stored[i].event.type \in DOMAIN typeId
                  /\ stored[i].type = typeId[stored[i].event.type]
        /\ dbTypes = {<<typeId[t], t>> : t \in DOMAIN typeId}

(* Before the first session nothing has happened.                          *)
SessionInv == session = 0 => thread = "none" /\ DOMAIN typeId = {} /\ buffer = <<>>

(* A command being added is the only one not accounted for.                *)
CommandInv ==
    ~raced => /\ commands \cap called = {}
              /\ ui \in {"idle", "joining"} => commands \cup called = 0..(nextId - 1)
              /\ ui = "adding" => commands \cup called = 0..(nextId - 2)

ClientInv ==
    /\ TypeOK
    /\ Recorded
    /\ BufferIsLatestFrame
    /\ IdsInv
    /\ ResolveInv
    /\ SessionInv
    /\ CommandInv

-----------------------------------------------------------------------------
(* The parts of TypeOK that a save touches.                                *)
StoreTypeOK ==
    /\ DOMAIN typeId \subseteq Types /\ nextTypeId \in Nat
    /\ \A t \in DOMAIN typeId : typeId[t] \in 0..(nextTypeId - 1)
    /\ stored \in Seq([event: Event, type: Nat \cup {NoType}])
    /\ DOMAIN stats \subseteq Frames
    /\ \A f \in DOMAIN stats : stats[f] \in [allocs: Nat, frees: Nat, size: Int]
    /\ dbTypes \subseteq Nat \X Types

(* A save appends the buffer to the table of events, under the ids of the  *)
(* types, and keeps cache and database in agreement.                       *)
LEMMA SaveFacts ==
    ASSUME StoreTypeOK, IdsInv,
           NEW buf \in Seq(Event), NEW f \in Frames, NEW a \in Nat, NEW r \in Nat,
           NEW s \in Int, Save(buf, f, a, r, s)
    PROVE  /\ StoreTypeOK' /\ IdsInv'
           /\ Len(stored') = Len(stored) + Len(buf)
           /\ \A i \in 1..Len(stored) : stored'[i] = stored[i]
           /\ \A i \in 1..Len(buf) : stored'[Len(stored) + i].event = buf[i]
           /\ ResolveInv /\ session' = session => ResolveInv'
<1> DEFINE Row == [event: Event, type: Nat \cup {NoType}]
           n == nextTypeId + Cardinality(NewTypes(buf))
<1>1. /\ DOMAIN typeId' = DOMAIN typeId \cup NewTypes(buf)
      /\ nextTypeId' \in Nat
      /\ \A t \in DOMAIN typeId : typeId'[t] = typeId[t]
      /\ \A t \in DOMAIN typeId' : typeId'[t] \in 0..(nextTypeId' - 1)
      /\ \A t, u \in DOMAIN typeId' : typeId'[t] = typeId'[u] => t = u
  BY TypeIdsFacts DEF StoreTypeOK, IdsInv, Save
<1>2. \A i \in 1..Len(buf) : IsAlloc(buf[i]) => buf[i].type \in DOMAIN typeId'
  <2> SUFFICES ASSUME NEW i \in 1..Len(buf), IsAlloc(buf[i]) PROVE buf[i].type \in DOMAIN typeId'
    OBVIOUS
  <2>1. buf[i] \in Event /\ i \in DOMAIN buf
    OBVIOUS
  <2>2. buf[i].type \in Types
    BY <2>1, EventFacts
  <2>3. buf[i].type \in DOMAIN typeId \/ buf[i].type \in NewTypes(buf)
    BY <2>1, <2>2 DEF NewTypes
  <2> QED
    BY <1>1, <2>3
<1>3. /\ Rows(buf) \in Seq(Row) /\ Len(Rows(buf)) = Len(buf)
      /\ \A i \in 1..Len(buf) :
            /\ Rows(buf)[i].event = buf[i]
            /\ IsAlloc(buf[i]) => Rows(buf)[i].type = typeId'[buf[i].type]
  <2>1. typeId' = TypeIds(buf)
    BY DEF Save
  <2> DEFINE T(i) == IF IsAlloc(buf[i]) THEN typeId'[buf[i].type] ELSE NoType
  <2>2. Rows(buf) = [i \in 1..Len(buf) |-> [event |-> buf[i], type |-> T(i)]]
    BY <2>1 DEF Rows
  <2>3. ASSUME NEW i \in 1..Len(buf)
        PROVE  T(i) \in Nat \cup {NoType}
    <3>1. CASE IsAlloc(buf[i])
      BY <1>1, <1>2, <3>1
    <3>2. CASE ~IsAlloc(buf[i])
      BY <3>2
    <3> QED
      BY <3>1, <3>2
  <2>4. \A i \in 1..Len(buf) : IsAlloc(buf[i]) => T(i) = typeId'[buf[i].type]
    OBVIOUS
  <2> HIDE DEF T
  <2>5. \A i \in 1..Len(buf) : [event |-> buf[i], type |-> T(i)] \in Row
    BY <2>3
  <2>6. Rows(buf) \in Seq(Row) /\ Len(Rows(buf)) = Len(buf)
    <3> HIDE DEF Row
    <3> QED
      BY <2>2, <2>5
  <2> QED
    BY <2>2, <2>4, <2>6
<1>4. stored \in Seq(Row) /\ stored' = stored \o Rows(buf)
  BY DEF StoreTypeOK, Save
<1>5. /\ stored' \in Seq(Row)
      /\ Len(stored') = Len(stored) + Len(buf)
      /\ \A i \in 1..Len(stored) : stored'[i] = stored[i]
      /\ \A i \in 1..Len(buf) : stored'[Len(stored) + i] = Rows(buf)[i]
  <2> DEFINE rows == Rows(buf)
  <2>1. stored \in Seq(Row) /\ rows \in Seq(Row) /\ Len(rows) = Len(buf)
    BY <1>3, <1>4
  <2>2. stored' = stored \o rows
    BY <1>4
  <2> HIDE DEF Row, rows
  <2>3. stored \o rows \in Seq(Row) /\ Len(stored \o rows) = Len(stored) + Len(rows)
    BY <2>1
  <2>4. \A i \in 1..Len(stored) : (stored \o rows)[i] = stored[i]
    BY <2>1
  <2>5. \A i \in 1..Len(rows) : (stored \o rows)[Len(stored) + i] = rows[i]
    BY <2>1
  <2> QED
    BY <2>1, <2>2, <2>3, <2>4, <2>5 DEF rows
<1>6. DOMAIN typeId' \subseteq Types
  BY <1>1 DEF StoreTypeOK, NewTypes
<1>7. /\ DOMAIN stats' \subseteq Frames
      /\ \A g \in DOMAIN stats' : stats'[g] \in [allocs: Nat, frees: Nat, size: Int]
  BY DEF StoreTypeOK, Save, FrameStats
<1>8. dbTypes' = dbTypes \cup {<<typeId'[t], t>> : t \in NewTypes(buf)}
  BY DEF Save, InternTypes
<1>9. dbTypes' \subseteq Nat \X Types
  <2>1. \A t \in NewTypes(buf) : typeId'[t] \in Nat /\ t \in Types
    BY <1>1, <1>6
  <2> QED
    BY <1>8, <2>1 DEF StoreTypeOK
<1>10. StoreTypeOK' /\ IdsInv'
  BY <1>1, <1>5, <1>6, <1>7, <1>9 DEF StoreTypeOK, IdsInv
<1>11. ASSUME ResolveInv, session' = session
       PROVE  ResolveInv'
  <2> SUFFICES ASSUME session <= 1
               PROVE  /\ \A i \in 1..Len(stored') :
                            IsAlloc(stored'[i].event) =>
                                /\ stored'[i].event.type \in DOMAIN typeId'
                                /\ stored'[i].type = typeId'[stored'[i].event.type]
                      /\ dbTypes' = {<<typeId'[t], t>> : t \in DOMAIN typeId'}
    BY <1>11 DEF ResolveInv, IsAlloc
  <2>1. ASSUME NEW i \in 1..Len(stored'), IsAlloc(stored'[i].event)
        PROVE  /\ stored'[i].event.type \in DOMAIN typeId'
               /\ stored'[i].type = typeId'[stored'[i].event.type]
    <3>1. CASE i \in 1..Len(stored)
      <4>1. stored'[i] = stored[i]
        BY <1>5, <3>1
      <4>2. /\ stored[i].event.type \in DOMAIN typeId
            /\ stored[i].type = typeId[stored[i].event.type]
        BY <1>11, <2>1, <3>1, <4>1 DEF ResolveInv
      <4> QED
        BY <1>1, <4>1, <4>2
    <3>2. CASE i \notin 1..Len(stored)
      <4>0. Len(stored) \in Nat /\ Len(buf) \in Nat
        BY <1>4
      <4>1. PICK j \in 1..Len(buf) : i = Len(stored) + j
        <5>1. i - Len(stored) \in 1..Len(buf) /\ i = Len(stored) + (i - Len(stored))
          BY <1>5, <3>2, <4>0
        <5> QED
          BY <5>1
      <4>2. stored'[i] = Rows(buf)[j]
        BY <1>5, <4>1
      <4>3. stored'[i].event = buf[j] /\ IsAlloc(buf[j])
        BY <1>3, <2>1, <4>2
      <4> QED
        BY <1>2, <1>3, <4>2, <4>3
    <3> QED
      BY <3>1, <3>2
  <2>2. dbTypes = {<<typeId[t], t>> : t \in DOMAIN typeId}
    BY <1>11 DEF ResolveInv
  <2>3. dbTypes = {<<typeId'[t], t>> : t \in DOMAIN typeId}
    BY <1>1, <2>2
  <2>4. dbTypes' = {<<typeId'[t], t>> : t \in DOMAIN typeId'}
    BY <1>1, <1>8, <2>3
  <2> QED
    BY <2>1, <2>4
<1> QED
  BY <1>3, <1>5, <1>10, <1>11

-----------------------------------------------------------------------------
(* Steps that leave the buffer, the type ids and the database alone.       *)
Idle == UNCHANGED <<session, buffer, prevFrame, types, db, recorded>>

LEMMA IdleStep ==
    ASSUME ClientInv, Idle
    PROVE  Recorded' /\ BufferIsLatestFrame' /\ IdsInv' /\ ResolveInv'
BY DEF ClientInv, Idle, types, db, Recorded, BufferIsLatestFrame, IdsInv, ResolveInv, IsAlloc

(* The sequence of messages not yet taken.                                 *)
LEMMA InboxFacts ==
    ASSUME TypeOK
    PROVE  /\ \A e \in Event \cup Reply : Append(inbox, e) \in Seq(Event \cup Reply)
           /\ \A e \in Event \cup Reply :
                 thread = "getting" => /\ Append(inbox, e) # <<>>
                                       /\ Head(Append(inbox, e)) \in Reply
           /\ inbox # <<>> => /\ Tail(inbox) \in Seq(Event \cup Reply)
                              /\ Head(inbox) \in Event \cup Reply
<1> DEFINE M == Event \cup Reply
<1>1. inbox \in Seq(M) /\ (thread = "getting" => inbox # <<>> /\ Head(inbox) \in Reply)
  BY DEF TypeOK
<1> HIDE DEF M
<1>2. \A e \in M : /\ Append(inbox, e) \in Seq(M) /\ Append(inbox, e) # <<>>
                   /\ inbox # <<>> => Head(Append(inbox, e)) = Head(inbox)
  <2> TAKE e \in M
  <2>1. Append(inbox, e) \in Seq(M) /\ Len(Append(inbox, e)) = Len(inbox) + 1
    BY <1>1
  <2>2. Append(inbox, e) # <<>>
    BY <1>1, <2>1
  <2>3. ASSUME inbox # <<>>
        PROVE  Append(inbox, e)[1] = inbox[1]
    <3>1. 1 \in 1..Len(inbox)
      BY <1>1, <2>3
    <3> QED
      BY <1>1, <3>1
  <2>4. Head(inbox) = inbox[1] /\ Head(Append(inbox, e)) = Append(inbox, e)[1]
    BY <1>1
  <2> QED
    BY <2>1, <2>2, <2>3, <2>4
<1>3. inbox # <<>> => Tail(inbox) \in Seq(M) /\ Head(inbox) \in M
  BY <1>1
<1> QED
  BY <1>1, <1>2, <1>3 DEF M

LEMMA NetworkStep ==
    ASSUME ClientInv,
           \/ \E e \in Event : ReceiveEvent(e)
           \/ \E id \in Ids : ReceiveReply(id)
    PROVE  ClientInv'
<1>1. PICK m \in Event \cup Reply :
         /\ inbox' = Append(inbox, m)
         /\ sent' \in 0..MaxMessages /\ asked' \subseteq Ids
         /\ UNCHANGED <<receiving, netStop, session, stop, thread, ui, frameV, types, db,
                        cmds, recorded, ordered>>
  <2>1. CASE \E e \in Event : ReceiveEvent(e)
    BY <2>1, ClientBoundsAssumption DEF ReceiveEvent, ClientInv, TypeOK
  <2>2. CASE \E id \in Ids : ReceiveReply(id)
    <3>1. PICK id \in Ids : ReceiveReply(id)
      BY <2>2
    <3>2. [kind |-> "reply", id |-> id] \in Reply
      BY DEF Reply
    <3> QED
      BY <3>1, <3>2 DEF ReceiveReply, ClientInv, TypeOK
  <2> QED
    BY <2>1, <2>2
<1>2. Idle
  BY <1>1 DEF Idle, frameV
<1>3. TypeOK'
  <2>1. /\ inbox' \in Seq(Event \cup Reply)
        /\ thread' = "getting" => inbox' # <<>> /\ Head(inbox') \in Reply
    BY <1>1, InboxFacts DEF ClientInv
  <2> QED
    BY <1>1, <2>1 DEF ClientInv, TypeOK, frameV, types, db, cmds
<1>4. SessionInv' /\ CommandInv'
  BY <1>1 DEF ClientInv, SessionInv, CommandInv, frameV, types, cmds
<1> QED
  BY <1>2, <1>3, <1>4, IdleStep DEF ClientInv

(* Steps of the message thread that take no event into the buffer.         *)
LEMMA AnswerStep ==
    ASSUME ClientInv,
           (\E e \in Event : EventBreaks(e)) \/ BeginAnswer \/ FinishAnswer \/ Poll
    PROVE  ClientInv'
<1> USE DEF ClientInv
<1>1. CASE \E e \in Event : EventBreaks(e)
  <2>1. PICK e \in Event : EventBreaks(e)
    BY <1>1
  <2>2. Idle /\ inbox' \in Seq(Event \cup Reply)
    BY <2>1, InboxFacts DEF EventBreaks, NextEvent, Idle, frameV
  <2>3. TypeOK'
    BY <2>1, <2>2 DEF EventBreaks, TypeOK, frameV, types, db, cmds
  <2>4. SessionInv' /\ CommandInv'
    BY <2>1 DEF EventBreaks, NextEvent, SessionInv, CommandInv, frameV, types, cmds
  <2> QED
    BY <2>2, <2>3, <2>4, IdleStep
<1>2. CASE BeginAnswer
  <2>1. Idle
    BY <1>2 DEF BeginAnswer, Idle, frameV
  <2>2. Head(inbox) \in Reply
    BY <1>2, InboxFacts, EventFacts DEF BeginAnswer
  <2>3. TypeOK'
    BY <1>2, <2>2 DEF BeginAnswer, TypeOK, net, frameV, types, db
  <2>4. SessionInv' /\ CommandInv'
    BY <1>2 DEF BeginAnswer, SessionInv, CommandInv, TypeOK, frameV, types
  <2> QED
    BY <2>1, <2>3, <2>4, IdleStep
<1>3. CASE FinishAnswer
  <2>1. Idle
    BY <1>3 DEF FinishAnswer, Idle, frameV
  <2>2. inbox' \in Seq(Event \cup Reply)
    BY <1>3, InboxFacts DEF FinishAnswer, TypeOK
  <2> DEFINE id == Head(inbox).id
  <2>3. called' = called \cup ({id} \cap commands) /\ commands' = commands \ {id}
    BY <1>3 DEF FinishAnswer, Forget
  <2> HIDE DEF id
  <2>4. TypeOK'
    BY ZenonT(40), <1>3, <2>2, <2>3 DEF FinishAnswer, TypeOK, frameV, types, db
  <2>5. SessionInv' /\ CommandInv'
    <3>1. /\ thread # "none" /\ UNCHANGED <<ui, nextId, raced, session>>
      BY <1>3 DEF FinishAnswer
    <3>2. commands' \cup called' = commands \cup called
      BY <2>3
    <3>3. commands \cap called = {} => commands' \cap called' = {}
      BY <2>3
    <3> QED
      BY <3>1, <3>2, <3>3 DEF SessionInv, CommandInv
  <2> QED
    BY <2>1, <2>4, <2>5, IdleStep
<1>4. CASE Poll
  <2>1. UNCHANGED vars
    BY <1>4 DEF Poll
  <2>2. Idle
    BY <2>1 DEF vars, Idle, frameV
  <2>3. TypeOK'
    BY <2>1 DEF vars, TypeOK, net, frameV, types, db, cmds
  <2>4. SessionInv' /\ CommandInv'
    BY <2>1 DEF vars, SessionInv, CommandInv, frameV, types, cmds
  <2> QED
    BY <2>2, <2>3, <2>4, IdleStep
<1> QED
  BY <1>1, <1>2, <1>3, <1>4

(* Appending an event to a buffer or to the history.                       *)
LEMMA AppendFacts ==
    ASSUME NEW S, NEW p \in Seq(S), NEW e \in S
    PROVE  /\ Append(p, e) \in Seq(S)
           /\ Len(Append(p, e)) = Len(p) + 1
           /\ \A i \in 1..Len(p) : Append(p, e)[i] = p[i]
           /\ Append(p, e)[Len(p) + 1] = e
OBVIOUS

(* An event that is appended to the buffer stands last in the history.     *)
LEMMA RecordedAppend ==
    ASSUME TypeOK, Recorded, NEW e \in Event,
           recorded' = Append(recorded, e)
    PROVE  LET buf == Append(buffer, e)
           IN  /\ Len(recorded') = Len(stored) + Len(buf)
               /\ \A i \in 1..Len(stored) : recorded'[i] = stored[i].event
               /\ \A i \in 1..Len(buf) : recorded'[Len(stored) + i] = buf[i]
               /\ recorded' \in Seq(Event) /\ buf \in Seq(Event)
<1> DEFINE buf == Append(buffer, e)
<1>1. /\ buffer \in Seq(Event) /\ recorded \in Seq(Event)
      /\ Len(stored) \in Nat /\ Len(buffer) \in Nat /\ Len(recorded) \in Nat
  BY DEF TypeOK
<1>2. /\ Len(recorded) = Len(stored) + Len(buffer)
      /\ \A i \in 1..Len(stored) : recorded[i] = stored[i].event
      /\ \A i \in 1..Len(buffer) : recorded[Len(stored) + i] = buffer[i]
  BY DEF Recorded
<1>3. /\ recorded' \in Seq(Event) /\ Len(recorded') = Len(recorded) + 1
      /\ \A i \in 1..Len(recorded) : recorded'[i] = recorded[i]
      /\ recorded'[Len(recorded) + 1] = e
  BY <1>1, AppendFacts
<1>4. /\ buf \in Seq(Event) /\ Len(buf) = Len(buffer) + 1
      /\ \A i \in 1..Len(buffer) : buf[i] = buffer[i]
      /\ buf[Len(buffer) + 1] = e
  BY <1>1, AppendFacts
<1> HIDE DEF buf
<1>5. \A i \in 1..Len(stored) : recorded'[i] = stored[i].event
  BY <1>1, <1>2, <1>3
<1>6. \A i \in 1..Len(buf) : recorded'[Len(stored) + i] = buf[i]
  <2> TAKE i \in 1..Len(buf)
  <2>1. CASE i \in 1..Len(buffer)
    <3>1. Len(stored) + i \in 1..Len(recorded)
      BY <1>1, <1>2, <2>1
    <3> QED
      BY <1>2, <1>3, <1>4, <2>1, <3>1
  <2>2. CASE i = Len(buffer) + 1
    <3>1. Len(stored) + i = Len(recorded) + 1
      BY <1>1, <1>2, <2>2
    <3> QED
      BY <1>3, <1>4, <2>2, <3>1
  <2>3. i \in 1..Len(buffer) \/ i = Len(buffer) + 1
    <3>1. Len(buf) = Len(buffer) + 1 /\ Len(buffer) \in Nat
      BY <1>1, <1>4
    <3> QED
      BY <3>1
  <2> QED
    BY <2>1, <2>2, <2>3
<1> QED
  BY <1>1, <1>2, <1>3, <1>4, <1>5, <1>6 DEF buf

(* Before the first event the buffer is empty.                             *)
LEMMA EmptyBeforeFirst ==
    ASSUME TypeOK, BufferIsLatestFrame, prevFrame = NoFrame
    PROVE  buffer = <<>>
<1>1. buffer \in Seq(Event)
  BY DEF TypeOK
<1>2. ASSUME buffer # <<>>
      PROVE  FALSE
  <2>1. 1 \in 1..Len(buffer) /\ buffer[1] \in Event
    BY <1>1, <1>2
  <2>2. buffer[1].frame \in 0..MaxFrame /\ buffer[1].frame = -1
    BY <2>1, EventFacts DEF BufferIsLatestFrame, NoFrame, Frames
  <2> QED
    BY <2>2, ClientBoundsAssumption
<1> QED
  BY <1>2

(* Everything but what is saved: the same for both kinds of event step.    *)
LEMMA EventStepTypes ==
    ASSUME ClientInv, NEW e \in Event, NextEvent(e),
           UNCHANGED <<receiving, netStop, sent, asked, session, stop, thread, ui, cmds>>,
           prevFrame' \in Frames, Record(e), total' = total + SizeOf(e),
           allocs' \in Nat, frees' \in Nat,
           hasMin' \in BOOLEAN, minFrame' \in Frames, maxFrame' \in Frames,
           buffer' \in Seq(Event), Len(buffer') <= FlushLimit, StoreTypeOK'
    PROVE  TypeOK' /\ SessionInv' /\ CommandInv'
<1>1. inbox' \in Seq(Event \cup Reply) /\ thread = "run"
  BY InboxFacts DEF NextEvent, ClientInv
<1>2. recorded' \in Seq(Event)
  BY AppendFacts DEF Record, ClientInv, TypeOK
<1>3. ordered' \in BOOLEAN
  BY DEF Record, ClientInv, TypeOK
<1>4. total' \in Int
  BY EventFacts DEF ClientInv, TypeOK
<1>5. TypeOK'
  BY <1>1, <1>2, <1>3, <1>4 DEF TypeOK, StoreTypeOK, ClientInv, cmds
<1>6. SessionInv' /\ CommandInv'
  BY <1>1 DEF ClientInv, SessionInv, CommandInv, cmds
<1> QED
  BY <1>5, <1>6

LEMMA StoreTypes ==
    ASSUME TypeOK
    PROVE  StoreTypeOK
BY DEF TypeOK, StoreTypeOK

(* After a save the table of events is a beginning of the history.         *)
LEMMA SavedHistory ==
    ASSUME NEW h, NEW buf \in Seq(Event), Len(stored) \in Nat,
           \A i \in 1..Len(stored) : h[i] = stored[i].event,
           \A i \in 1..Len(buf) : h[Len(stored) + i] = buf[i],
           Len(stored') = Len(stored) + Len(buf),
           \A i \in 1..Len(stored) : stored'[i] = stored[i],
           \A i \in 1..Len(buf) : stored'[Len(stored) + i].event = buf[i]
    PROVE  \A i \in 1..Len(stored') : stored'[i].event = h[i]
<1> TAKE i \in 1..Len(stored')
<1>1. CASE i \in 1..Len(stored)
  BY <1>1
<1>2. CASE i \notin 1..Len(stored)
  <2>1. Len(buf) \in Nat
    OBVIOUS
  <2>2. PICK j \in 1..Len(buf) : i = Len(stored) + j
    <3>1. i - Len(stored) \in 1..Len(buf) /\ i = Len(stored) + (i - Len(stored))
      BY <1>2, <2>1
    <3> QED
      BY <3>1
  <2>3. h[Len(stored) + j] = buf[j] /\ stored'[Len(stored) + j].event = buf[j]
    OBVIOUS
  <2> QED
    BY <2>2, <2>3
<1> QED
  BY <1>1, <1>2

LEMMA BeginsFrameStep ==
    ASSUME ClientInv, NEW e \in Event, EventBeginsFrame(e)
    PROVE  ClientInv'
<1> USE DEF ClientInv
<1>1. /\ e.frame \in Frames /\ prevFrame' = e.frame /\ Allocs(e) \in Nat /\ Frees(e) \in Nat
      /\ recorded' = Append(recorded, e)
  BY EventFacts DEF EventBeginsFrame, TrySave, FrameBegun, Record
<1>2. buffer' = Append(<<>>, e)
  BY EmptyBeforeFirst DEF EventBeginsFrame, Unsaved
<1>3. buffer' \in Seq(Event) /\ Len(buffer') = 1 /\ buffer'[1] = e
  BY <1>2, AppendFacts
<1>4. /\ allocs' \in Nat /\ frees' \in Nat /\ Len(buffer') <= FlushLimit
      /\ hasMin' \in BOOLEAN /\ minFrame' \in Frames /\ maxFrame' \in Frames
  BY <1>1, <1>3, ClientSizesAssumption
     DEF EventBeginsFrame, TrySave, Restarted, TypeOK
<1>5. BufferIsLatestFrame'
  BY <1>1, <1>3 DEF BufferIsLatestFrame
<1>6. StoreTypeOK
  BY StoreTypes
<1>7. /\ Len(recorded') = Len(stored) + Len(buffer) + 1
      /\ \A i \in 1..Len(stored) : recorded'[i] = stored[i].event
      /\ \A i \in 1..Len(buffer) : recorded'[Len(stored) + i] = buffer[i]
      /\ recorded'[Len(stored) + Len(buffer) + 1] = e
  <2>1. buffer \in Seq(Event) /\ recorded \in Seq(Event) /\ Len(stored) \in Nat
    BY DEF TypeOK
  <2>2. /\ Len(recorded') = Len(recorded) + 1 /\ recorded'[Len(recorded) + 1] = e
        /\ \A i \in 1..Len(recorded) : recorded'[i] = recorded[i]
    BY <1>1, <2>1, AppendFacts
  <2>3. Len(recorded) = Len(stored) + Len(buffer) /\ Len(buffer) \in Nat
    BY <2>1 DEF Recorded
  <2>4. ASSUME NEW i \in 1..Len(stored)
        PROVE  recorded'[i] = stored[i].event
    <3>1. i \in 1..Len(recorded)
      BY <2>1, <2>3
    <3> QED
      BY <2>2, <3>1 DEF Recorded
  <2>5. ASSUME NEW i \in 1..Len(buffer)
        PROVE  recorded'[Len(stored) + i] = buffer[i]
    <3>1. Len(stored) + i \in 1..Len(recorded)
      BY <2>1, <2>3
    <3> QED
      BY <2>2, <3>1 DEF Recorded
  <2> QED
    BY <2>2, <2>3, <2>4, <2>5
<1>8. session' = session
  BY DEF EventBeginsFrame
<1>9. CASE prevFrame = NoFrame
  <2>1. UNCHANGED <<types, db>> /\ buffer = <<>>
    BY <1>9, EmptyBeforeFirst DEF EventBeginsFrame, TrySave
  <2>2. StoreTypeOK' /\ IdsInv' /\ ResolveInv'
    BY <1>6, <1>8, <2>1 DEF StoreTypeOK, IdsInv, ResolveInv, IsAlloc, types, db
  <2>3. Recorded'
    <3>1. Len(stored') = Len(stored) /\ Len(buffer) = 0 /\ Len(stored) \in Nat
      BY <2>1 DEF db, TypeOK
    <3>2. \A i \in 1..Len(buffer') : buffer'[i] = recorded'[Len(stored') + i]
      BY <1>3, <1>7, <3>1
    <3>3. \A i \in 1..Len(stored') : stored'[i].event = recorded'[i]
      BY <1>7, <2>1 DEF db
    <3>4. Len(recorded') = Len(stored') + Len(buffer')
      BY <1>3, <1>7, <3>1
    <3> QED
      BY <3>2, <3>3, <3>4 DEF Recorded
  <2> QED
    BY <1>1, <1>4, <1>3, <1>5, <2>2, <2>3, EventStepTypes DEF EventBeginsFrame
<1>10. CASE prevFrame # NoFrame
  <2>1. Save(buffer, prevFrame, allocs, frees, total)
    BY <1>10 DEF EventBeginsFrame, TrySave
  <2>2. /\ buffer \in Seq(Event) /\ prevFrame \in Frames /\ allocs \in Nat
        /\ frees \in Nat /\ total \in Int /\ Len(stored) \in Nat
    BY <1>10 DEF TypeOK
  <2>3. /\ StoreTypeOK' /\ IdsInv' /\ ResolveInv'
        /\ Len(stored') = Len(stored) + Len(buffer)
        /\ \A i \in 1..Len(stored) : stored'[i] = stored[i]
        /\ \A i \in 1..Len(buffer) : stored'[Len(stored) + i].event = buffer[i]
    BY <1>6, <1>8, <2>1, <2>2, SaveFacts
  <2>4. \A i \in 1..Len(stored') : stored'[i].event = recorded'[i]
    BY <1>7, <2>2, <2>3, SavedHistory
  <2>5. \A i \in 1..Len(buffer') : buffer'[i] = recorded'[Len(stored') + i]
    BY <1>3, <1>7, <2>3
  <2>6. Len(recorded') = Len(stored') + Len(buffer')
    BY <1>3, <1>7, <2>3
  <2>7. Recorded'
    BY <2>4, <2>5, <2>6 DEF Recorded
  <2> QED
    BY <1>1, <1>3, <1>4, <1>5, <2>3, <2>7, EventStepTypes DEF EventBeginsFrame
<1> QED
  BY <1>9, <1>10

LEMMA OfFrameStep ==
    ASSUME ClientInv, NEW e \in Event, EventOfFrame(e)
    PROVE  ClientInv'
<1> USE DEF ClientInv
<1> DEFINE buf == Append(buffer, e)
<1>1. /\ e.frame = prevFrame /\ prevFrame \in Frames /\ prevFrame' = prevFrame
      /\ recorded' = Append(recorded, e) /\ session' = session
  BY EventFacts DEF EventOfFrame, Record
<1>2. /\ allocs' \in Nat /\ frees' \in Nat /\ total' \in Int
      /\ hasMin' \in BOOLEAN /\ minFrame' \in Frames /\ maxFrame' \in Frames
  <2>1. Allocs(e) \in Nat /\ Frees(e) \in Nat /\ SizeOf(e) \in Int
    BY EventFacts
  <2>2. /\ allocs' = allocs + Allocs(e) /\ frees' = frees + Frees(e)
        /\ total' = total + SizeOf(e) /\ UNCHANGED <<hasMin, minFrame, maxFrame>>
    BY DEF EventOfFrame
  <2>3. /\ allocs \in Nat /\ frees \in Nat /\ total \in Int
        /\ hasMin \in BOOLEAN /\ minFrame \in Frames /\ maxFrame \in Frames
    BY DEF TypeOK
  <2>4. allocs' \in Nat /\ frees' \in Nat /\ total' \in Int
    BY <2>1, <2>2, <2>3
  <2> QED
    BY <2>2, <2>3, <2>4
<1>3. /\ Len(recorded') = Len(stored) + Len(buf)
      /\ \A i \in 1..Len(stored) : recorded'[i] = stored[i].event
      /\ \A i \in 1..Len(buf) : recorded'[Len(stored) + i] = buf[i]
      /\ buf \in Seq(Event)
  BY <1>1, RecordedAppend
<1>4. \A i \in 1..Len(buf) : buf[i].frame = prevFrame
  <2>1. buffer \in Seq(Event) /\ \A i \in 1..Len(buffer) : buffer[i].frame = prevFrame
    BY DEF TypeOK, BufferIsLatestFrame
  <2>2. /\ Len(buf) = Len(buffer) + 1 /\ Len(buffer) \in Nat
        /\ \A i \in 1..Len(buffer) : buf[i] = buffer[i]
        /\ buf[Len(buffer) + 1] = e
    BY <2>1, AppendFacts
  <2> HIDE DEF buf
  <2>3. \A i \in 1..Len(buf) : i \in 1..Len(buffer) \/ i = Len(buffer) + 1
    BY <2>2
  <2> QED
    BY <1>1, <2>1, <2>2, <2>3
<1>5. StoreTypeOK /\ Len(stored) \in Nat
  BY StoreTypes DEF TypeOK
<1>6. CASE Len(buf) > FlushLimit
  <2>1. Save(buf, prevFrame, allocs', frees', total') /\ buffer' = <<>>
    <3>1. ~(Len(buf) <= FlushLimit)
      BY <1>3, <1>6, ClientSizesAssumption
    <3> QED
      BY <3>1 DEF EventOfFrame, Flushed
  <2> HIDE DEF buf
  <2>2. /\ StoreTypeOK' /\ IdsInv' /\ ResolveInv'
        /\ Len(stored') = Len(stored) + Len(buf)
        /\ \A i \in 1..Len(stored) : stored'[i] = stored[i]
        /\ \A i \in 1..Len(buf) : stored'[Len(stored) + i].event = buf[i]
    BY <1>1, <1>2, <1>3, <1>5, <2>1, SaveFacts
  <2>3. \A i \in 1..Len(stored') : stored'[i].event = recorded'[i]
    BY <1>3, <1>5, <2>2, SavedHistory
  <2>4. buffer' \in Seq(Event) /\ Len(buffer') = 0 /\ Len(buffer') <= FlushLimit
    BY <2>1, ClientSizesAssumption
  <2>5. Recorded' /\ BufferIsLatestFrame'
    <3>1. Len(stored') + 0 = Len(stored')
      BY <1>3, <1>5, <2>2
    <3> QED
      BY <1>3, <2>2, <2>3, <2>4, <3>1 DEF Recorded, BufferIsLatestFrame
  <2> QED
    BY <1>1, <1>2, <2>2, <2>4, <2>5, EventStepTypes DEF EventOfFrame
<1>7. CASE Len(buf) <= FlushLimit
  <2>1. buffer' = buf /\ UNCHANGED <<types, db>>
    <3>1. ~(Len(buf) > FlushLimit)
      BY <1>3, <1>7, ClientSizesAssumption
    <3> QED
      BY <3>1 DEF EventOfFrame
  <2> HIDE DEF buf
  <2>2. StoreTypeOK' /\ IdsInv' /\ ResolveInv'
    BY <1>1, <1>5, <2>1 DEF StoreTypeOK, IdsInv, ResolveInv, IsAlloc, types, db
  <2>3. Recorded' /\ BufferIsLatestFrame'
    BY <1>1, <1>3, <1>4, <2>1 DEF Recorded, BufferIsLatestFrame, db
  <2> QED
    BY <1>1, <1>2, <1>3, <1>7, <2>1, <2>2, <2>3, EventStepTypes DEF EventOfFrame
<1> QED
  BY <1>3, <1>6, <1>7, ClientSizesAssumption

(* The thread never saves anything as it leaves: the frame it tries to     *)
(* save is that of the last event.                                         *)
LEMMA LeaveStep ==
    ASSUME ClientInv, Leave
    PROVE  ClientInv' /\ UNCHANGED <<frameV, types, db>>
<1> USE DEF ClientInv
<1>1. ~(buffer # <<>> /\ buffer[1].frame # prevFrame)
  <2>1. buffer # <<>> => 1 \in 1..Len(buffer)
    BY DEF TypeOK
  <2> QED
    BY <2>1 DEF BufferIsLatestFrame
<1>2. UNCHANGED <<frameV, types, db>>
  BY <1>1 DEF Leave
<1>3. /\ UNCHANGED <<net, session, stop, ui, cmds, recorded, ordered>>
      /\ thread = "run" /\ thread' = "done"
  BY DEF Leave
<1>4. Idle
  BY <1>2, <1>3 DEF Idle, frameV
<1>5. TypeOK'
  BY <1>2, <1>3 DEF TypeOK, net, frameV, types, db, cmds
<1>6. SessionInv' /\ CommandInv'
  BY <1>3 DEF SessionInv, CommandInv, cmds
<1> QED
  BY <1>2, <1>4, <1>5, <1>6, IdleStep

LEMMA UserStepInv ==
    ASSUME ClientInv, UserStep
    PROVE  ClientInv'
<1> USE DEF ClientInv
<1>1. CASE Start \/ StartFails
  <2>1. /\ session \in Nat /\ session < MaxSessions /\ session' = session + 1
        /\ stored' = <<>> /\ stats' = <<>> /\ dbTypes' = {} /\ recorded' = buffer
        /\ receiving' = ~netStop /\ thread' \in {"run", "failed"}
        /\ UNCHANGED <<inbox, netStop, sent, asked, stop, ui, frameV, types, cmds, ordered>>
    BY <1>1 DEF Start, StartFails, TypeOK
  <2>2. TypeOK'
    <3>1. session' \in 0..MaxSessions
      BY <2>1, ClientBoundsAssumption
    <3>2. stored' \in Seq([event: Event, type: Nat \cup {NoType}])
      BY <2>1
    <3>3. DOMAIN stats' = {}
      BY <2>1
    <3> QED
      BY <2>1, <3>1, <3>2, <3>3 DEF TypeOK, frameV, types, cmds
  <2>3. Recorded'
    <3>1. Len(stored') = 0 /\ buffer \in Seq(Event)
      BY <2>1 DEF TypeOK
    <3> QED
      BY <2>1, <3>1 DEF Recorded, frameV
  <2>4. BufferIsLatestFrame' /\ IdsInv'
    BY <2>1 DEF BufferIsLatestFrame, IdsInv, frameV, types
  <2>5. ResolveInv' /\ SessionInv'
    <3>1. session' # 0
      BY <2>1
    <3>2. session' <= 1 => DOMAIN typeId' = {}
      BY <2>1 DEF SessionInv, types
    <3>3. Len(stored') = 0
      BY <2>1
    <3> QED
      BY <2>1, <3>1, <3>2, <3>3 DEF ResolveInv, SessionInv
  <2>6. CommandInv'
    BY <2>1 DEF CommandInv, cmds
  <2> QED
    BY <2>2, <2>3, <2>4, <2>5, <2>6
<1>2. CASE BeginStop
  <2>1. Idle
    BY <1>2 DEF BeginStop, Idle, frameV
  <2>2. TypeOK'
    BY <1>2 DEF BeginStop, TypeOK, net, frameV, types, db, cmds
  <2>3. SessionInv' /\ CommandInv'
    BY <1>2 DEF BeginStop, SessionInv, CommandInv, frameV, types, cmds
  <2> QED
    BY <2>1, <2>2, <2>3, IdleStep
<1>3. CASE FinishStop
  <2>1. Idle
    BY <1>3 DEF FinishStop, Idle, frameV
  <2>2. TypeOK'
    BY <1>3 DEF FinishStop, TypeOK, frameV, types, db, cmds
  <2>3. SessionInv' /\ CommandInv'
    BY <1>3 DEF FinishStop, SessionInv, CommandInv, frameV, types, cmds
  <2> QED
    BY <2>1, <2>2, <2>3, IdleStep
<1>4. CASE BeginCommand
  <2>1. Idle
    BY <1>4 DEF BeginCommand, Idle, frameV
  <2>2. /\ nextId \in Nat /\ nextId' = nextId + 1 /\ nextId' \in 0..MaxRequests
        /\ ui = "idle" /\ ui' = "adding" /\ raced' \in BOOLEAN
    BY <1>4, ClientBoundsAssumption DEF BeginCommand, TypeOK
  <2>3. commands' \subseteq 0..(nextId' - 1) /\ called' \subseteq 0..(nextId' - 1)
    BY <1>4, <2>2 DEF BeginCommand, TypeOK
  <2>4. TypeOK'
    <3>1. nextId' > 0
      BY <2>2
    <3> QED
      BY <1>4, <2>2, <2>3, <3>1 DEF BeginCommand, TypeOK, net, frameV, types, db
  <2>5. SessionInv' /\ CommandInv'
    <3>1. 0..(nextId - 1) = 0..(nextId' - 2)
      BY <2>2
    <3> QED
      BY <1>4, <2>2, <3>1 DEF BeginCommand, SessionInv, CommandInv, TypeOK, frameV, types
  <2> QED
    BY <2>1, <2>4, <2>5, IdleStep
<1>5. CASE FinishCommand
  <2>1. Idle
    BY <1>5 DEF FinishCommand, Idle, frameV
  <2>2. /\ nextId \in Nat \ {0} /\ nextId <= MaxRequests /\ ui = "adding" /\ ui' = "idle"
    BY <1>5 DEF FinishCommand, TypeOK
  <2>3. nextId - 1 \in Ids /\ nextId - 1 \in 0..(nextId - 1)
    BY <2>2, ClientBoundsAssumption DEF Ids
  <2>4. TypeOK'
    <3>1. asked' \subseteq Ids
      BY <1>5, <2>3 DEF FinishCommand, TypeOK
    <3>2. commands' \subseteq 0..(nextId - 1)
      BY <1>5, <2>3 DEF FinishCommand, TypeOK
    <3> QED
      BY <1>5, <3>1, <3>2 DEF FinishCommand, TypeOK, frameV, types, db
  <2>5. CommandInv'
    <3> SUFFICES ASSUME ~raced
                 PROVE  /\ commands' \cap called' = {}
                        /\ commands' \cup called' = 0..(nextId - 1)
      BY <1>5, <2>2 DEF FinishCommand, CommandInv
    <3>1. /\ commands' = commands \cup {nextId - 1} /\ called' = called
          /\ commands \cap called = {} /\ commands \cup called = 0..(nextId - 2)
      BY <1>5, <2>2 DEF FinishCommand, CommandInv
    <3>2. nextId - 1 \notin 0..(nextId - 2)
      BY <2>2
    <3>3. 0..(nextId - 1) = 0..(nextId - 2) \cup {nextId - 1}
      BY <2>2
    <3> QED
      BY <3>1, <3>2, <3>3
  <2>6. SessionInv'
    BY <1>5 DEF FinishCommand, SessionInv, frameV, types
  <2> QED
    BY <2>1, <2>4, <2>5, <2>6, IdleStep
<1> QED
  BY <1>1, <1>2, <1>3, <1>4, <1>5 DEF UserStep

-----------------------------------------------------------------------------
LEMMA ClientInit ==
    Init => ClientInv
<1> SUFFICES ASSUME Init PROVE ClientInv
  OBVIOUS
<1>1. TypeOK
  <2>1. /\ 0 \in 0..MaxMessages /\ 0 \in 0..MaxSessions /\ 0 \in 0..MaxRequests
        /\ 0 \in Frames /\ 0 <= FlushLimit
    BY ClientBoundsAssumption, ClientSizesAssumption DEF Frames
  <2>2. /\ inbox \in Seq(Event \cup Reply) /\ buffer \in Seq(Event) /\ Len(buffer) = 0
        /\ stored \in Seq([event: Event, type: Nat \cup {NoType}])
        /\ recorded \in Seq(Event) /\ DOMAIN typeId = {} /\ DOMAIN stats = {}
    BY DEF Init
  <2>3. /\ Len(buffer) <= FlushLimit /\ nextId \in 0..MaxRequests /\ sent \in 0..MaxMessages
        /\ session \in 0..MaxSessions /\ minFrame \in Frames /\ maxFrame \in Frames
        /\ total \in Int /\ allocs \in Nat /\ frees \in Nat /\ nextTypeId \in Nat
    BY <2>1, <2>2 DEF Init
  <2>4. /\ receiving \in BOOLEAN /\ netStop \in BOOLEAN /\ stop \in BOOLEAN
        /\ hasMin \in BOOLEAN /\ raced \in BOOLEAN /\ ordered \in BOOLEAN
        /\ asked = {} /\ commands = {} /\ called = {} /\ dbTypes = {}
        /\ thread = "none" /\ ui = "idle" /\ prevFrame = NoFrame
    BY DEF Init
  <2> QED
    BY <2>2, <2>3, <2>4 DEF TypeOK
<1>2. Recorded /\ BufferIsLatestFrame /\ IdsInv /\ ResolveInv /\ SessionInv
  <2>1. Len(stored) = 0 /\ Len(buffer) = 0 /\ Len(recorded) = 0 /\ DOMAIN typeId = {}
    BY DEF Init
  <2> QED
    BY <2>1 DEF Init, Recorded, BufferIsLatestFrame, IdsInv, ResolveInv, SessionInv
<1>3. CommandInv
  BY DEF Init, CommandInv
<1> QED
  BY <1>1, <1>2, <1>3 DEF ClientInv

LEMMA ClientNext ==
    ClientInv /\ [Next]_vars => ClientInv'
<1> SUFFICES ASSUME ClientInv, [Next]_vars
             PROVE  ClientInv'
  OBVIOUS
<1>1. CASE UNCHANGED vars
  <2>1. Idle
    BY <1>1 DEF vars, Idle, frameV
  <2>2. TypeOK'
    BY <1>1 DEF ClientInv, vars, TypeOK, net, frameV, types, db, cmds
  <2>3. SessionInv' /\ CommandInv'
    BY <1>1 DEF ClientInv, vars, SessionInv, CommandInv, frameV, types, cmds
  <2> QED
    BY <2>1, <2>2, <2>3, IdleStep DEF ClientInv
<1>2. CASE MessageStep
  BY <1>2, AnswerStep, BeginsFrameStep, OfFrameStep, LeaveStep DEF MessageStep
<1> QED
  BY <1>1, <1>2, NetworkStep, UserStepInv DEF Next

(* The inductive invariant of the client, from which the theorems follow.  *)
THEOREM ClientInvariant == Spec => []ClientInv
BY ClientInit, ClientNext, PTL DEF Spec

(* Every variable keeps its type, and never more events wait in            *)
(* m_frame_events than the flush allows.                                   *)
THEOREM ClientTypeCorrect == Spec => []TypeOK
<1>1. ClientInv => TypeOK
  BY DEF ClientInv
<1> QED
  BY <1>1, ClientInvariant, PTL

(* Saving in try_save_events and flushing in process_messages lose, repeat *)
(* and reorder no event, for any stream of messages and any flush limit.   *)
THEOREM EventsAreKept == Spec => []Recorded
<1>1. ClientInv => Recorded
  BY DEF ClientInv
<1> QED
  BY <1>1, ClientInvariant, PTL

(* m_frame_events only holds events of m_prev_frame.                       *)
THEOREM OneFrameWaits == Spec => []BufferIsLatestFrame
<1>1. ClientInv => BufferIsLatestFrame
  BY DEF ClientInv
<1> QED
  BY <1>1, ClientInvariant, PTL

(* get_or_create_type_id: stored ids lead to the right row of ObjectTypes. *)
THEOREM TypesAreResolved == Spec => []TypesResolve
<1>1. ClientInv => TypesResolve
  <2> SUFFICES ASSUME ClientInv, session <= 1
               PROVE  /\ \A i \in 1..Len(stored) :
                            IsAlloc(stored[i].event) =>
                                <<stored[i].type, stored[i].event.type>> \in dbTypes
                      /\ \A p, q \in dbTypes : p[1] = q[1] => p = q
    BY DEF TypesResolve
  <2>1. dbTypes = {<<typeId[t], t>> : t \in DOMAIN typeId}
    BY DEF ClientInv, ResolveInv
  <2>2. ASSUME NEW p \in dbTypes, NEW q \in dbTypes, p[1] = q[1]
        PROVE  p = q
    <3>1. PICK t \in DOMAIN typeId : p = <<typeId[t], t>>
      BY <2>1
    <3>2. PICK u \in DOMAIN typeId : q = <<typeId[u], u>>
      BY <2>1
    <3>3. typeId[t] = typeId[u]
      BY <2>2, <3>1, <3>2
    <3> QED
      BY <3>1, <3>2, <3>3 DEF ClientInv, IdsInv
  <2>3. ASSUME NEW i \in 1..Len(stored), IsAlloc(stored[i].event)
        PROVE  <<stored[i].type, stored[i].event.type>> \in dbTypes
    BY <2>1, <2>3 DEF ClientInv, ResolveInv
  <2> QED
    BY <2>2, <2>3
<1> QED
  BY <1>1, ClientInvariant, PTL

(* get_command and add_command: without a race no command is lost and no   *)
(* callback runs for a pending one.                                        *)
THEOREM CommandsAreAccounted == Spec => []CommandsAccounted
<1>1. ClientInv => CommandsAccounted
  BY DEF ClientInv, CommandInv, CommandsAccounted
<1> QED
  BY <1>1, ClientInvariant, PTL

(* The save at the end of process_messages never writes anything.          *)
THEOREM FinalSaveIsIdle == Spec => [][Leave => UNCHANGED <<frameV, types, db>>]_vars
<1>1. ClientInv /\ [Next]_vars => [Leave => UNCHANGED <<frameV, types, db>>]_vars
  BY LeaveStep
<1> QED
  BY <1>1, ClientInvariant, PTL DEF Spec

(* A history h of events of which the first n are stored, in frame p, with *)
(* statistics st and the running counts a, r and s of process_messages:    *)
(* the counts are those of the last frame, the statistics those of the     *)
(* stored events.                                                          *)
Of(h, n, kind, f) == {i \in 1..n : h[i].kind = kind /\ h[i].frame = f}
UpTo(h, n, f)     == {i \in 1..n : h[i].frame <= f}
Net(h) == [i \in 1..Len(h) |-> IF h[i].kind = "alloc" THEN h[i].size ELSE -h[i].size]

InFrame(h, n, p) ==
    /\ \A i \in 1..Len(h) : h[i].frame <= p
    /\ \A i \in (n + 1)..Len(h) : h[i].frame = p
    /\ h # <<>> => h[Len(h)].frame = p
    /\ h = <<>> => p = NoFrame

Counted(h, p, a, r, s) ==
    /\ a = Cardinality(Of(h, Len(h), "alloc", p))
    /\ r = Cardinality(Of(h, Len(h), "free", p))
    /\ s = SumFunctionOnSet(Net(h), 1..Len(h))

StatsOf(h, n, p, st) ==
    /\ \A f \in DOMAIN st : f \in Int /\ f <= p
    /\ \A i \in 1..n : h[i].frame \in DOMAIN st
    /\ \A f \in DOMAIN st :
          /\ st[f].allocs = Cardinality(Of(h, n, "alloc", f))
          /\ st[f].frees = Cardinality(Of(h, n, "free", f))
          /\ st[f].size = SumFunctionOnSet(Net(h), UpTo(h, n, f))

Tallied(h, n, p, st, a, r, s) ==
    InFrame(h, n, p) /\ Counted(h, p, a, r, s) /\ StatsOf(h, n, p, st)

TallyInv ==
    /\ session = 0 => recorded = <<>>
    /\ session <= 1 /\ ordered =>
          Tallied(recorded, Len(stored), prevFrame, stats, allocs, frees, total)

-----------------------------------------------------------------------------
(* Frames and sizes are numbers.                                           *)
LEMMA EventNumbers ==
    ASSUME NEW e \in Event
    PROVE  e.frame \in Int /\ e.size \in Int
<1>1. e.frame \in Frames /\ e.size \in Sizes
  BY DEF Event
<1>2. e.size \in Nat
  BY <1>1, ClientSizesAssumption
<1>3. e.frame \in Int
  BY <1>1, ClientBoundsAssumption DEF Frames
<1> QED
  BY <1>2, <1>3

(* A history holds events, of which there are finitely many of each sort.  *)
LEMMA HistoryFacts ==
    ASSUME NEW h \in Seq(Event), NEW n \in 0..Len(h)
    PROVE  /\ Len(h) \in Nat
           /\ \A i \in 1..Len(h) : h[i].frame \in Int /\ Net(h)[i] \in Int
           /\ IsFiniteSet(1..n)
           /\ \A k, f : /\ IsFiniteSet(Of(h, n, k, f))
                        /\ Cardinality(Of(h, n, k, f)) \in Nat
           /\ \A f : IsFiniteSet(UpTo(h, n, f))
<1>1. Len(h) \in Nat
  OBVIOUS
<1>2. ASSUME NEW i \in 1..Len(h)
      PROVE  h[i].frame \in Int /\ Net(h)[i] \in Int
  <2>1. h[i] \in Event
    OBVIOUS
  <2>2. h[i].frame \in Int /\ h[i].size \in Int
    BY <2>1, EventNumbers
  <2>5. Net(h)[i] = IF h[i].kind = "alloc" THEN h[i].size ELSE -h[i].size
    BY DEF Net
  <2> QED
    BY <2>2, <2>5
<1>3. IsFiniteSet(1..n)
  BY FS_Interval
<1>4. ASSUME NEW k, NEW f
      PROVE  IsFiniteSet(Of(h, n, k, f)) /\ Cardinality(Of(h, n, k, f)) \in Nat
  <2>1. Of(h, n, k, f) \subseteq 1..n
    BY DEF Of
  <2> QED
    BY <1>3, <2>1, FS_Subset, FS_CardinalityType
<1>5. ASSUME NEW f
      PROVE  IsFiniteSet(UpTo(h, n, f))
  <2>1. UpTo(h, n, f) \subseteq 1..n
    BY DEF UpTo
  <2> QED
    BY <1>3, <2>1, FS_Subset
<1> QED
  BY <1>1, <1>2, <1>3, <1>4, <1>5

(* Another event follows those of the history.                             *)
Extends(g, h, e) ==
    /\ g \in Seq(Event) /\ Len(h) \in Nat /\ Len(g) = Len(h) + 1 /\ g # <<>>
    /\ g[Len(g)] = e /\ \A i \in 1..Len(h) : g[i] = h[i]

LEMMA HistoryAppend ==
    ASSUME NEW h \in Seq(Event), NEW e \in Event
    PROVE  Extends(Append(h, e), h, e)
<1>1. LET g == Append(h, e)
      IN  /\ g \in Seq(Event) /\ Len(h) \in Nat /\ Len(g) = Len(h) + 1
          /\ g[Len(h) + 1] = e /\ \A i \in 1..Len(h) : g[i] = h[i]
  BY AppendFacts
<1> QED
  BY <1>1 DEF Extends

(* A longer history counts the same among the first n events.              *)
LEMMA HistoryPrefix ==
    ASSUME NEW h \in Seq(Event), NEW e \in Event, NEW g, Extends(g, h, e),
           NEW n \in 0..Len(h), NEW k, NEW f
    PROVE  /\ Of(g, n, k, f) = Of(h, n, k, f)
           /\ SumFunctionOnSet(Net(g), UpTo(g, n, f))
                 = SumFunctionOnSet(Net(h), UpTo(h, n, f))
<1>1. /\ Len(h) \in Nat /\ Len(g) = Len(h) + 1 /\ \A i \in 1..n : i \in 1..Len(h)
      /\ \A i \in 1..Len(h) : g[i] = h[i]
  BY DEF Extends
<1>2. Of(g, n, k, f) = Of(h, n, k, f)
  BY <1>1 DEF Of
<1>3. UpTo(g, n, f) = UpTo(h, n, f)
  BY <1>1 DEF UpTo
<1>4. \A i \in 1..Len(h) : Net(g)[i] = Net(h)[i]
  BY <1>1 DEF Net
<1>5. IsFiniteSet(UpTo(h, n, f))
  BY HistoryFacts
<1>6. \A i \in UpTo(h, n, f) : Net(g)[i] = Net(h)[i]
  BY <1>1, <1>4 DEF UpTo
<1>7. SumFunctionOnSet(Net(g), UpTo(h, n, f)) = SumFunctionOnSet(Net(h), UpTo(h, n, f))
  BY <1>5, <1>6, SumAgree
<1> QED
  BY <1>2, <1>3, <1>7

(* Another event adds itself to the counts of its frame and to the total.  *)
LEMMA CountAppend ==
    ASSUME NEW h \in Seq(Event), NEW e \in Event, NEW g, Extends(g, h, e), NEW p
    PROVE  /\ e.frame = p =>
                 /\ Cardinality(Of(g, Len(g), "alloc", p))
                       = Cardinality(Of(h, Len(h), "alloc", p)) + Allocs(e)
                 /\ Cardinality(Of(g, Len(g), "free", p))
                       = Cardinality(Of(h, Len(h), "free", p)) + Frees(e)
           /\ SumFunctionOnSet(Net(g), 1..Len(g))
                 = SumFunctionOnSet(Net(h), 1..Len(h)) + SizeOf(e)
<1>0. Len(h) \in Nat /\ Len(h) \in 0..Len(h)
  OBVIOUS
<1>1. /\ g \in Seq(Event) /\ Len(g) = Len(h) + 1 /\ g[Len(h) + 1] = e
      /\ \A i \in 1..Len(h) : g[i] = h[i]
  BY DEF Extends
<1>2. e.kind \in {"alloc", "free"}
  BY EventFacts
<1>3. \A k : /\ IsFiniteSet(Of(h, Len(h), k, p))
             /\ Cardinality(Of(h, Len(h), k, p)) \in Nat
  BY <1>0, HistoryFacts
<1>4. ASSUME e.frame = p, NEW k
      PROVE  /\ e.kind = k => Cardinality(Of(g, Len(g), k, p))
                                 = Cardinality(Of(h, Len(h), k, p)) + 1
             /\ e.kind # k => Cardinality(Of(g, Len(g), k, p))
                                 = Cardinality(Of(h, Len(h), k, p)) + 0
  <2>1. CASE e.kind = k
    <3>1. Of(g, Len(g), k, p) = Of(h, Len(h), k, p) \cup {Len(h) + 1}
      BY <1>0, <1>1, <1>4, <2>1 DEF Of
    <3>2. Len(h) + 1 \notin Of(h, Len(h), k, p)
      BY <1>0 DEF Of
    <3>3. Cardinality(Of(g, Len(g), k, p)) = Cardinality(Of(h, Len(h), k, p)) + 1
      BY <1>3, <3>1, <3>2, FS_AddElement
    <3> QED
      BY <2>1, <3>3
  <2>2. CASE e.kind # k
    <3>1. Of(g, Len(g), k, p) = Of(h, Len(h), k, p)
      BY <1>0, <1>1, <2>2 DEF Of
    <3> QED
      BY <1>3, <2>2, <3>1
  <2> QED
    BY <2>1, <2>2
<1>5. ASSUME e.frame = p
      PROVE  /\ Cardinality(Of(g, Len(g), "alloc", p))
                       = Cardinality(Of(h, Len(h), "alloc", p)) + Allocs(e)
             /\ Cardinality(Of(g, Len(g), "free", p))
                       = Cardinality(Of(h, Len(h), "free", p)) + Frees(e)
  <2>1. CASE e.kind = "alloc"
    BY <1>4, <1>5, <2>1 DEF Allocs, Frees, IsAlloc
  <2>2. CASE e.kind = "free"
    BY <1>4, <1>5, <2>2 DEF Allocs, Frees, IsAlloc
  <2> QED
    BY <1>2, <2>1, <2>2
<1>6. SumFunctionOnSet(Net(g), 1..Len(g)) = SumFunctionOnSet(Net(h), 1..Len(h)) + SizeOf(e)
  <2>1. /\ \A i \in 1..Len(h) : Net(g)[i] = Net(h)[i]
        /\ Net(g)[Len(h) + 1] = SizeOf(e)
    BY <1>0, <1>1, <1>2 DEF Net, SizeOf, IsAlloc
  <2>2. \A i \in 1..Len(h) : Net(h)[i] \in Int /\ Net(g)[i] = Net(h)[i]
    BY <1>0, <2>1, HistoryFacts
  <2>3. IsFiniteSet(1..Len(h))
    BY <1>0, FS_Interval
  <2>4. Len(h) + 1 \notin 1..Len(h) /\ Net(g)[Len(h) + 1] \in Int
    BY <1>0, <2>1, EventFacts
  <2> DEFINE S == 1..Len(h)
             x == Len(h) + 1
             u == Net(g)
             v == Net(h)
  <2>5. 1..Len(g) = S \cup {x}
    BY <1>0, <1>1
  <2>6. SumFunctionOnSet(u, S \cup {x}) = SumFunctionOnSet(v, S) + u[x]
    <3>1. /\ IsFiniteSet(S) /\ x \notin S /\ u[x] \in Int
          /\ \A i \in S : v[i] \in Int /\ u[i] = v[i]
      BY <2>2, <2>3, <2>4
    <3> HIDE DEF S, x, u, v
    <3> QED
      BY <3>1, SumExtend
  <2> QED
    BY <2>1, <2>5, <2>6
<1> QED
  BY <1>5, <1>6

(* process_messages takes another event of the frame.                      *)
LEMMA TallyAppend ==
    ASSUME NEW h \in Seq(Event), NEW n \in 0..Len(h), NEW p \in Frames, NEW st,
           NEW a, NEW r, NEW s, Tallied(h, n, p, st, a, r, s),
           NEW e \in Event, e.frame = p, NEW g, Extends(g, h, e)
    PROVE  Tallied(g, n, p, st, a + Allocs(e), r + Frees(e), s + SizeOf(e))
<1>0. InFrame(h, n, p) /\ Counted(h, p, a, r, s) /\ StatsOf(h, n, p, st)
  BY DEF Tallied
<1>1. /\ Len(h) \in Nat /\ Len(g) = Len(h) + 1 /\ g # <<>>
      /\ g[Len(g)] = e /\ \A i \in 1..Len(h) : g[i] = h[i]
  BY DEF Extends
<1>2. InFrame(g, n, p)
  <2>1. p \in Int
    BY ClientBoundsAssumption DEF Frames
  <2>2. \A i \in 1..Len(g) : i \in 1..Len(h) \/ i = Len(g)
    BY <1>1
  <2>3. \A i \in 1..Len(g) : g[i].frame <= p
    BY <1>0, <1>1, <2>1, <2>2 DEF InFrame
  <2>4. \A i \in (n + 1)..Len(g) : i \in (n + 1)..Len(h) \/ i = Len(g)
    BY <1>1
  <2>5. \A i \in (n + 1)..Len(g) : g[i].frame = p
    <3>1. \A i \in (n + 1)..Len(h) : g[i] = h[i]
      BY <1>1
    <3> QED
      BY <1>0, <1>1, <2>4, <3>1 DEF InFrame
  <2> QED
    BY <1>1, <2>3, <2>5 DEF InFrame
<1>3. Counted(g, p, a + Allocs(e), r + Frees(e), s + SizeOf(e))
  BY <1>0, CountAppend DEF Counted
<1>4. StatsOf(g, n, p, st)
  <2>1. \A i \in 1..n : i \in 1..Len(h)
    BY <1>1
  <2>2. \A i \in 1..n : g[i].frame \in DOMAIN st
    BY <1>0, <1>1, <2>1 DEF StatsOf
  <2>3. /\ \A k, f : Of(g, n, k, f) = Of(h, n, k, f)
        /\ \A f : SumFunctionOnSet(Net(g), UpTo(g, n, f))
                     = SumFunctionOnSet(Net(h), UpTo(h, n, f))
    <3>1. ASSUME NEW k, NEW f
          PROVE  /\ Of(g, n, k, f) = Of(h, n, k, f)
                 /\ SumFunctionOnSet(Net(g), UpTo(g, n, f))
                       = SumFunctionOnSet(Net(h), UpTo(h, n, f))
      BY HistoryPrefix
    <3> QED
      BY <3>1
  <2> QED
    BY <1>0, <2>2, <2>3 DEF StatsOf
<1> QED
  BY <1>2, <1>3, <1>4 DEF Tallied

(* save_frame_events stores what has been gathered of the frame.           *)
LEMMA TallySave ==
    ASSUME NEW h \in Seq(Event), NEW n \in 0..Len(h), NEW p \in Frames, NEW st,
           NEW a, NEW r, NEW s, Tallied(h, n, p, st, a, r, s), NEW st1,
           st1 = [f \in DOMAIN st \cup {p} |->
                    IF f = p THEN [allocs |-> a, frees |-> r, size |-> s] ELSE st[f]]
    PROVE  Tallied(h, Len(h), p, st1, a, r, s)
<1>0. InFrame(h, n, p) /\ Counted(h, p, a, r, s) /\ StatsOf(h, n, p, st)
  BY DEF Tallied
<1>1. Len(h) \in Nat /\ n \in Nat /\ n <= Len(h) /\ p \in Int
  BY ClientBoundsAssumption DEF Frames
<1>2. InFrame(h, Len(h), p)
  BY <1>0, <1>1 DEF InFrame
<1>3. \A i \in 1..Len(h) : h[i].frame \in Int /\ h[i].frame <= p
  BY <1>0, HistoryFacts DEF InFrame
<1>4. \A i \in 1..Len(h) : i \in 1..n \/ i \in (n + 1)..Len(h)
  BY <1>1
<1>5. \A i \in 1..Len(h) : i \in 1..n \/ h[i].frame = p
  BY <1>0, <1>4 DEF InFrame
<1>6. \A i \in 1..n : i \in 1..Len(h)
  BY <1>1
<1>7. DOMAIN st1 = DOMAIN st \cup {p} /\ \A f \in DOMAIN st1 : f \in Int /\ f <= p
  BY <1>0, <1>1 DEF StatsOf
<1>8. \A i \in 1..Len(h) : h[i].frame \in DOMAIN st1
  BY <1>0, <1>5, <1>7 DEF StatsOf
<1>9. ASSUME NEW f \in DOMAIN st1
      PROVE  /\ st1[f].allocs = Cardinality(Of(h, Len(h), "alloc", f))
             /\ st1[f].frees = Cardinality(Of(h, Len(h), "free", f))
             /\ st1[f].size = SumFunctionOnSet(Net(h), UpTo(h, Len(h), f))
  <2>1. CASE f = p
    <3>1. UpTo(h, Len(h), p) = 1..Len(h)
      BY <1>3 DEF UpTo
    <3>2. st1[f] = [allocs |-> a, frees |-> r, size |-> s]
      BY <2>1
    <3>3. st1[f].allocs = a /\ st1[f].frees = r /\ st1[f].size = s
      BY <3>2
    <3> QED
      BY <1>0, <2>1, <3>1, <3>3 DEF Counted
  <2>2. CASE f # p
    <3>1. f \in DOMAIN st /\ st1[f] = st[f] /\ f \in Int /\ ~(p <= f)
      BY <1>1, <1>7, <2>2
    <3>2. \A k : Of(h, Len(h), k, f) = Of(h, n, k, f)
      BY <1>5, <1>6, <2>2 DEF Of
    <3>3. UpTo(h, Len(h), f) = UpTo(h, n, f)
      BY <1>5, <1>6, <3>1 DEF UpTo
    <3> QED
      BY <1>0, <3>1, <3>2, <3>3 DEF StatsOf
  <2> QED
    BY <2>1, <2>2
<1>10. StatsOf(h, Len(h), p, st1)
  BY <1>7, <1>8, <1>9 DEF StatsOf
<1> QED
  BY <1>0, <1>2, <1>10 DEF Tallied

(* The first event of a later frame, when all events are stored.           *)
LEMMA TallyBegin ==
    ASSUME NEW h \in Seq(Event), NEW p \in Int, NEW st,
           NEW a, NEW r, NEW s, Tallied(h, Len(h), p, st, a, r, s),
           NEW e \in Event, p < e.frame, NEW g, Extends(g, h, e)
    PROVE  Tallied(g, Len(h), e.frame, st, Allocs(e), Frees(e), s + SizeOf(e))
<1> DEFINE q == e.frame
<1>0. InFrame(h, Len(h), p) /\ Counted(h, p, a, r, s) /\ StatsOf(h, Len(h), p, st)
  BY DEF Tallied
<1>1. /\ Len(h) \in Nat /\ Len(h) \in 0..Len(h) /\ q \in Int /\ p < q
  BY EventFacts, ClientBoundsAssumption DEF Frames
<1>2. /\ Len(g) = Len(h) + 1 /\ g # <<>>
      /\ g[Len(g)] = e /\ \A i \in 1..Len(h) : g[i] = h[i]
  BY DEF Extends
<1>3. \A i \in 1..Len(h) : h[i].frame \in Int /\ h[i].frame <= p
  BY <1>0, <1>1, HistoryFacts DEF InFrame
<1>4. \A i \in 1..Len(g) : i \in 1..Len(h) \/ i = Len(g)
  BY <1>1, <1>2
<1> HIDE DEF q
<1>5. \A i \in 1..Len(h) : h[i].frame < q
  BY <1>1, <1>3
<1>6. InFrame(g, Len(h), q)
  <2>1. \A i \in 1..Len(g) : g[i].frame <= q
    BY <1>1, <1>2, <1>3, <1>4, <1>5 DEF q
  <2>2. \A i \in (Len(h) + 1)..Len(g) : i = Len(g)
    BY <1>1, <1>2
  <2> QED
    BY <1>2, <2>1, <2>2 DEF InFrame, q
<1>7. Counted(g, q, Allocs(e), Frees(e), s + SizeOf(e))
  <2>1. \A k : Of(h, Len(h), k, q) = {}
    BY <1>1, <1>3, <1>5 DEF Of
  <2>2. Cardinality({}) = 0
    BY FS_EmptySet
  <2>3. /\ Cardinality(Of(g, Len(g), "alloc", q)) = 0 + Allocs(e)
        /\ Cardinality(Of(g, Len(g), "free", q)) = 0 + Frees(e)
    <3>1. e.frame = q
      BY DEF q
    <3>2. /\ Cardinality(Of(g, Len(g), "alloc", q))
                = Cardinality(Of(h, Len(h), "alloc", q)) + Allocs(e)
          /\ Cardinality(Of(g, Len(g), "free", q))
                = Cardinality(Of(h, Len(h), "free", q)) + Frees(e)
      BY <3>1, CountAppend
    <3> QED
      BY <2>1, <2>2, <3>2
  <2>4. Allocs(e) \in Nat /\ Frees(e) \in Nat
    BY EventFacts
  <2>5. SumFunctionOnSet(Net(g), 1..Len(g)) = s + SizeOf(e)
    BY <1>0, CountAppend DEF Counted
  <2> QED
    BY <2>3, <2>4, <2>5 DEF Counted
<1>8. StatsOf(g, Len(h), q, st)
  <2>1. \A i \in 1..Len(h) : g[i].frame \in DOMAIN st
    BY <1>0, <1>2 DEF StatsOf
  <2>2. /\ \A k, f : Of(g, Len(h), k, f) = Of(h, Len(h), k, f)
        /\ \A f : SumFunctionOnSet(Net(g), UpTo(g, Len(h), f))
                     = SumFunctionOnSet(Net(h), UpTo(h, Len(h), f))
    <3>1. ASSUME NEW k, NEW f
          PROVE  /\ Of(g, Len(h), k, f) = Of(h, Len(h), k, f)
                 /\ SumFunctionOnSet(Net(g), UpTo(g, Len(h), f))
                       = SumFunctionOnSet(Net(h), UpTo(h, Len(h), f))
      BY <1>1, HistoryPrefix
    <3> QED
      BY <3>1
  <2>3. \A f \in DOMAIN st : f \in Int /\ f <= q
    BY <1>0, <1>1 DEF StatsOf
  <2> QED
    BY <1>0, <2>1, <2>2, <2>3 DEF StatsOf
<1> QED
  BY <1>6, <1>7, <1>8 DEF Tallied, q

-----------------------------------------------------------------------------
(* The tallies hold as long as nothing is taken, saved or started.         *)
LEMMA TallyIdle ==
    ASSUME TallyInv,
           UNCHANGED <<session, recorded, stored, prevFrame, stats, allocs, frees, total,
                       ordered>>
    PROVE  TallyInv'
BY DEF TallyInv

(* In a first session with frames in order, a frame begins after the last. *)
LEMMA TallyBeginsFrame ==
    ASSUME ClientInv, TallyInv, NEW e \in Event, EventBeginsFrame(e)
    PROVE  TallyInv'
<1>1. /\ recorded \in Seq(Event) /\ buffer \in Seq(Event)
      /\ session \in Nat /\ session' = session
      /\ prevFrame \in Frames \cup {NoFrame} /\ Len(stored) \in Nat
      /\ Len(recorded) = Len(stored) + Len(buffer)
  BY DEF ClientInv, TypeOK, Recorded, EventBeginsFrame
<1>2. /\ recorded' = Append(recorded, e)
      /\ ordered' => ordered /\ (recorded # <<>> => recorded[Len(recorded)].frame <= e.frame)
  BY DEF EventBeginsFrame, Record, ClientInv, TypeOK
<1>3. Extends(recorded', recorded, e)
  BY <1>1, <1>2, HistoryAppend
<1>4. /\ prevFrame' = e.frame /\ allocs' = 0 + Allocs(e) /\ frees' = 0 + Frees(e)
      /\ total' = total + SizeOf(e) /\ e.frame # prevFrame
  BY DEF EventBeginsFrame, TrySave, FrameBegun, Restarted
<1>5. session # 0
  BY DEF ClientInv, SessionInv, EventBeginsFrame, NextEvent
<1>6. ASSUME session <= 1, ordered'
      PROVE  Tallied(recorded', Len(stored'), prevFrame', stats', allocs', frees', total')
  <2>1. Tallied(recorded, Len(stored), prevFrame, stats, allocs, frees, total)
    BY <1>2, <1>6 DEF TallyInv
  <2>2. prevFrame \in Int /\ e.frame \in Int /\ e.frame >= 0
    BY <1>1, EventFacts, ClientBoundsAssumption DEF Frames, NoFrame
  <2>3. prevFrame < e.frame
    <3>1. CASE recorded = <<>>
      BY <2>1, <2>2, <3>1 DEF Tallied, InFrame, NoFrame
    <3>2. CASE recorded # <<>>
      <4>1. recorded[Len(recorded)].frame = prevFrame
        BY <2>1, <3>2 DEF Tallied, InFrame
      <4> QED
        BY <1>2, <1>4, <1>6, <2>2, <3>2, <4>1
    <3> QED
      BY <3>1, <3>2
  <2>4. Allocs(e) \in Nat /\ Frees(e) \in Nat
    BY EventFacts
  <2>5. allocs' = Allocs(e) /\ frees' = Frees(e)
    BY <1>4, <2>4
  <2>6. Tallied(recorded, Len(recorded), prevFrame, stats', allocs, frees, total)
        /\ Len(stored') = Len(recorded)
    <3>1. CASE prevFrame = NoFrame
      <4>1. UNCHANGED <<types, db>> /\ buffer = <<>>
        BY <3>1, EmptyBeforeFirst DEF EventBeginsFrame, TrySave, ClientInv
      <4>2. stored' = stored /\ stats' = stats /\ Len(buffer) = 0
        BY <4>1 DEF db
      <4>3. Len(stored') = Len(recorded)
        BY <1>1, <4>2
      <4> QED
        BY <2>1, <4>2, <4>3
    <3>2. CASE prevFrame # NoFrame
      <4>1. Save(buffer, prevFrame, allocs, frees, total)
        BY <3>2 DEF EventBeginsFrame, TrySave
      <4>2. /\ prevFrame \in Frames /\ allocs \in Nat /\ frees \in Nat /\ total \in Int
            /\ StoreTypeOK /\ IdsInv
        BY <3>2, StoreTypes DEF ClientInv, TypeOK
      <4>3. Len(stored') = Len(stored) + Len(buffer)
        BY <1>1, <4>1, <4>2, SaveFacts
      <4>4. Len(stored) \in 0..Len(recorded)
        BY <1>1
      <4>5. stats' = [f \in DOMAIN stats \cup {prevFrame} |->
                        IF f = prevFrame
                        THEN [allocs |-> allocs, frees |-> frees, size |-> total]
                        ELSE stats[f]]
        BY <4>1 DEF Save, FrameStats
      <4>6. Tallied(recorded, Len(recorded), prevFrame, stats', allocs, frees, total)
        BY <1>1, <2>1, <4>2, <4>4, <4>5, TallySave
      <4> QED
        BY <1>1, <4>3, <4>6
    <3> QED
      BY <3>1, <3>2
  <2>7. Tallied(recorded', Len(recorded), e.frame, stats', Allocs(e), Frees(e), total + SizeOf(e))
    BY <1>1, <1>3, <2>2, <2>3, <2>6, TallyBegin
  <2> QED
    BY <1>4, <2>5, <2>6, <2>7
<1> QED
  BY <1>1, <1>5, <1>6 DEF TallyInv

(* Another event of the frame, with or without a flush.                    *)
LEMMA TallyOfFrame ==
    ASSUME ClientInv, TallyInv, NEW e \in Event, EventOfFrame(e)
    PROVE  TallyInv'
<1> DEFINE buf == Append(buffer, e)
<1>1. /\ recorded \in Seq(Event) /\ buffer \in Seq(Event)
      /\ session \in Nat /\ session' = session
      /\ Len(stored) \in Nat /\ Len(buffer) \in Nat
      /\ Len(recorded) = Len(stored) + Len(buffer)
      /\ allocs \in Nat /\ frees \in Nat /\ total \in Int
  BY DEF ClientInv, TypeOK, Recorded, EventOfFrame
<1>2. recorded' = Append(recorded, e) /\ (ordered' => ordered)
  BY DEF EventOfFrame, Record, ClientInv, TypeOK
<1>3. Extends(recorded', recorded, e)
  BY <1>1, <1>2, HistoryAppend
<1>4. /\ prevFrame' = prevFrame /\ e.frame = prevFrame /\ prevFrame \in Frames
      /\ allocs' = allocs + Allocs(e) /\ frees' = frees + Frees(e)
      /\ total' = total + SizeOf(e)
  BY EventFacts DEF EventOfFrame
<1>5. session # 0
  BY DEF ClientInv, SessionInv, EventOfFrame, NextEvent
<1>6. ASSUME session <= 1, ordered'
      PROVE  Tallied(recorded', Len(stored'), prevFrame', stats', allocs', frees', total')
  <2>1. Tallied(recorded, Len(stored), prevFrame, stats, allocs, frees, total)
    BY <1>2, <1>6 DEF TallyInv
  <2>2. Len(stored) \in 0..Len(recorded)
    BY <1>1
  <2>3. Tallied(recorded', Len(stored), prevFrame, stats, allocs + Allocs(e),
                frees + Frees(e), total + SizeOf(e))
    BY <1>1, <1>3, <1>4, <2>1, <2>2, TallyAppend
  <2>4. Tallied(recorded', Len(stored), prevFrame, stats, allocs', frees', total')
    BY <1>4, <2>3
  <2>5. recorded' \in Seq(Event) /\ Len(recorded') = Len(recorded) + 1
    BY <1>3 DEF Extends
  <2>6. CASE stored' = stored /\ stats' = stats
    BY <1>4, <2>4, <2>6
  <2>7. CASE Save(buf, prevFrame, allocs', frees', total')
    <3>1. /\ allocs' \in Nat /\ frees' \in Nat /\ total' \in Int
      <4>1. Allocs(e) \in Nat /\ Frees(e) \in Nat /\ SizeOf(e) \in Int
        BY EventFacts
      <4> QED
        BY <1>1, <1>4, <4>1, SMTT(30)
    <3>2. StoreTypeOK /\ IdsInv
      BY StoreTypes DEF ClientInv
    <3>3. buf \in Seq(Event) /\ Len(buf) = Len(buffer) + 1
      BY <1>1, AppendFacts
    <3> HIDE DEF buf
    <3>4. Len(stored') = Len(stored) + Len(buf)
      BY <1>4, <2>7, <3>1, <3>2, <3>3, SaveFacts
    <3>5. stats' = [f \in DOMAIN stats \cup {prevFrame} |->
                      IF f = prevFrame
                      THEN [allocs |-> allocs', frees |-> frees', size |-> total']
                      ELSE stats[f]]
      BY <2>7 DEF Save, FrameStats
    <3>6. Len(stored) \in 0..Len(recorded')
      BY <1>1, <2>5
    <3>7. Tallied(recorded', Len(recorded'), prevFrame, stats', allocs', frees', total')
      BY <1>4, <2>4, <2>5, <3>5, <3>6, TallySave
    <3>8. Len(stored') = Len(recorded')
      BY <1>1, <2>5, <3>3, <3>4
    <3> QED
      BY <1>4, <3>7, <3>8
  <2> QED
    BY <2>6, <2>7 DEF EventOfFrame, db
<1> QED
  BY <1>1, <1>5, <1>6 DEF TallyInv

(* A session starts with an empty database; the first one with no history. *)
LEMMA TallyStart ==
    ASSUME ClientInv, TallyInv, Start \/ StartFails
    PROVE  TallyInv'
<1>1. /\ session \in Nat /\ session' = session + 1
      /\ stored' = <<>> /\ stats' = <<>> /\ recorded' = buffer
      /\ UNCHANGED <<prevFrame, allocs, frees, total, ordered>>
  BY DEF Start, StartFails, frameV, ClientInv, TypeOK
<1>2. ASSUME session' <= 1, ordered
      PROVE  Tallied(recorded', Len(stored'), prevFrame', stats', allocs', frees', total')
  <2>1. session = 0
    BY <1>1, <1>2
  <2>2. buffer = <<>> /\ recorded = <<>>
    BY <2>1 DEF ClientInv, SessionInv, TallyInv
  <2>3. Tallied(recorded, Len(stored), prevFrame, stats, allocs, frees, total)
    BY <1>2, <2>1 DEF TallyInv
  <2>4. Len(stored') = 0 /\ DOMAIN stats' = {} /\ Len(recorded) = 0
    BY <1>1, <2>2
  <2>5. InFrame(recorded, 0, prevFrame) /\ Counted(recorded, prevFrame, allocs, frees, total)
    BY <2>3, <2>4 DEF Tallied, InFrame
  <2>6. StatsOf(recorded, 0, prevFrame, stats')
    BY <2>4 DEF StatsOf
  <2> QED
    BY <1>1, <2>2, <2>4, <2>5, <2>6 DEF Tallied
<1> QED
  BY <1>1, <1>2 DEF TallyInv

LEMMA TallyNext ==
    ClientInv /\ TallyInv /\ [Next]_vars => TallyInv'
<1> SUFFICES ASSUME ClientInv, TallyInv, [Next]_vars
             PROVE  TallyInv'
  OBVIOUS
<1>1. CASE \/ UNCHANGED vars \/ (\E e \in Event : ReceiveEvent(e))
           \/ (\E id \in Ids : ReceiveReply(id)) \/ (\E e \in Event : EventBreaks(e))
           \/ BeginAnswer \/ FinishAnswer \/ Poll
  BY <1>1, TallyIdle DEF vars, ReceiveEvent, ReceiveReply, EventBreaks, BeginAnswer,
        FinishAnswer, Poll, frameV, db
<1>2. CASE BeginStop \/ FinishStop \/ BeginCommand \/ FinishCommand
  BY <1>2, TallyIdle DEF BeginStop, FinishStop, BeginCommand, FinishCommand, frameV, db
<1>3. CASE Leave
  <2>1. UNCHANGED <<frameV, types, db>> /\ UNCHANGED <<session, recorded, ordered>>
    BY <1>3, LeaveStep DEF Leave
  <2> QED
    BY <2>1, TallyIdle DEF frameV, db
<1>4. CASE Start \/ StartFails
  BY <1>4, TallyStart
<1>5. CASE \E e \in Event : EventBeginsFrame(e) \/ EventOfFrame(e)
  BY <1>5, TallyBeginsFrame, TallyOfFrame
<1> QED
  BY <1>1, <1>2, <1>3, <1>4, <1>5 DEF Next, MessageStep, UserStep

LEMMA TallyInit == Init => TallyInv
<1> SUFFICES ASSUME Init PROVE TallyInv
  OBVIOUS
<1>1. /\ recorded = <<>> /\ Len(recorded) = 0 /\ Len(stored) = 0 /\ DOMAIN stats = {}
      /\ prevFrame = NoFrame /\ allocs = 0 /\ frees = 0 /\ total = 0
  BY DEF Init
<1>2. \A k : Of(recorded, Len(recorded), k, prevFrame) = {}
  BY <1>1 DEF Of
<1>3. 1..Len(recorded) = {} /\ Cardinality({}) = 0
  BY <1>1, FS_EmptySet
<1>4. Counted(recorded, prevFrame, allocs, frees, total)
  BY <1>1, <1>2, <1>3, SumEmpty DEF Counted
<1>5. InFrame(recorded, Len(stored), prevFrame) /\ StatsOf(recorded, Len(stored), prevFrame, stats)
  BY <1>1 DEF InFrame, StatsOf
<1> QED
  BY <1>1, <1>4, <1>5 DEF TallyInv, Tallied

(* The counts and sizes of the history are those of the table of events.   *)
LEMMA TallyOfStored ==
    ASSUME ClientInv, TallyInv, session <= 1, ordered
    PROVE  /\ \A i \in 1..Len(stored) : stored[i].event.frame \in DOMAIN stats
           /\ \A f \in DOMAIN stats : /\ stats[f].allocs = Stored("alloc", f)
                                      /\ stats[f].frees = Stored("free", f)
                                      /\ stats[f].size = SizeUpTo(f)
<1>1. StatsOf(recorded, Len(stored), prevFrame, stats)
  BY DEF TallyInv, Tallied
<1>2. /\ recorded \in Seq(Event) /\ Len(stored) \in Nat /\ Len(buffer) \in Nat
      /\ Len(recorded) = Len(stored) + Len(buffer)
      /\ \A i \in 1..Len(stored) : stored[i].event = recorded[i]
  BY DEF ClientInv, TypeOK, Recorded
<1>3. Len(stored) \in 0..Len(recorded) /\ \A i \in 1..Len(stored) : i \in 1..Len(recorded)
  BY <1>2
<1>4. \A k, f : Stored(k, f) = Cardinality(Of(recorded, Len(stored), k, f))
  <2> TAKE k, f
  <2>1. {i \in 1..Len(stored) : stored[i].event.kind = k /\ stored[i].event.frame = f}
            = Of(recorded, Len(stored), k, f)
    BY <1>2 DEF Of
  <2> QED
    BY <2>1 DEF Stored
<1>5. ASSUME NEW f
      PROVE  SizeUpTo(f) = SumFunctionOnSet(Net(recorded), UpTo(recorded, Len(stored), f))
  <2> DEFINE S == UpTo(recorded, Len(stored), f)
             u == StoredBytes
             v == Net(recorded)
  <2>1. {i \in 1..Len(stored) : stored[i].event.frame <= f} = S
    BY <1>2 DEF UpTo
  <2>2. \A i \in 1..Len(stored) : u[i] = v[i]
    BY <1>2, <1>3 DEF StoredBytes, Net
  <2>3. \A i \in S : u[i] = v[i]
    BY <2>2 DEF UpTo
  <2>4. IsFiniteSet(S)
    BY <1>2, <1>3, HistoryFacts
  <2>5. SumFunctionOnSet(u, S) = SumFunctionOnSet(v, S)
    <3> HIDE DEF S, u, v
    <3> QED
      BY <2>3, <2>4, SumAgree
  <2> QED
    BY <2>1, <2>5 DEF SizeUpTo
<1> QED
  BY <1>1, <1>2, <1>4, <1>5 DEF StatsOf

(* The counts a frame is saved with are those of its stored events.        *)
THEOREM StatsAreExact == Spec => []StatsExact
<1>1. ClientInv /\ TallyInv => StatsExact
  BY TallyOfStored DEF StatsExact
<1> QED
  BY <1>1, ClientInvariant, TallyInit, TallyNext, PTL DEF Spec

(* m_size_running_total at the end of a frame is what all events up to it  *)
(* leave allocated.                                                        *)
THEOREM SizesAreExact == Spec => []SizesExact
<1>1. ClientInv /\ TallyInv => SizesExact
  BY TallyOfStored DEF SizesExact
<1> QED
  BY <1>1, ClientInvariant, TallyInit, TallyNext, PTL DEF Spec
=============================================================================
