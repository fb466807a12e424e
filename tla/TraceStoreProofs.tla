-------------------------- MODULE TraceStoreProofs --------------------------
(***************************************************************************)
(* Proofs about the databases, for any number of files, migrations, rows   *)
(* of a batch, batches, requests of the user and failures of storage.      *)
(***************************************************************************)
EXTENDS TraceStore, FiniteSetTheorems, TLAPS

(* Which file is open at which place of the user interface.                *)
PlaceInv ==
    /\ file # NoFile => disk[file] # Absent
    /\ thread # "none" => file \in Unsaved /\ ui # "upgrade"
    /\ ui = "upgrade" => file # NoFile
    /\ ui = "upgrade" /\ job \in {"open", "save"} => file \in Files
    /\ ui = "upgrade" /\ job \in {"start", "run"} => file \in Unsaved /\ name \notin Files

(* The queries of the migration under way are the only tables that are not *)
(* those of a recorded migration, and they are in an open transaction.     *)
Whole(c) == c.schema = TablesOf(c.done)
Begins(m, n) == {<<m, q>> : q \in 1..n}
SchemaInv ==
    /\ \A p \in Paths : disk[p] # Absent => Whole(disk[p])
    /\ step = 0 => Whole(work)
    /\ step > 0 => /\ inTx /\ ui = "upgrade"
                   /\ \E m \in todo : /\ IsNext(m) /\ step <= Migrations[m]
                                      /\ work.schema = TablesOf(work.done) \cup Begins(m, step)

(* The rows of a file are batches without a gap; those the connection sees *)
(* during a session reach up to the current batch, and it sees what of     *)
(* them is in the file.  A session starts with none.                       *)
PartsOf(rows, b) == {s.part : s \in {s \in rows : s.batch = b}}
Spanned(rows, t) ==
    \A q, r \in rows : \A b \in q.batch..r.batch : b \in t \/ PartsOf(rows, b) = Parts
Filled(rows, f, t) ==
    \A q \in rows : \A b \in q.batch..(f - 1) : b \in t \/ PartsOf(rows, b) = Parts
Past(rows, f) == \A r \in rows : r.batch \in Nat /\ r.batch < f
BatchInv ==
    /\ \A p \in Paths : disk[p] # Absent =>
           Past(disk[p].rows, batch) /\ Spanned(disk[p].rows, torn)
    /\ thread = "none" => Past(work.rows, batch) /\ Spanned(work.rows, torn)
    /\ thread # "none" =>
           disk[file].rows \subseteq work.rows /\ Filled(work.rows, batch, torn)
    /\ thread = "idle" => Past(work.rows, batch)
    /\ thread = "batch" => /\ inTx /\ Past(work.rows, batch + 1)
                           /\ batch \in torn \/ PartsOf(work.rows, batch) = 1..part
    /\ ui = "upgrade" /\ job \in {"start", "run"} => work.rows = {} /\ disk[file].rows = {}

(* Only the file that was saved last can be removed, and only by start.    *)
KeptInv ==
    /\ KeptUnlessStarted
    /\ file \in Files => work.rows = disk[file].rows
    /\ name \in Files => name = last /\ ~temp

(* Unsaved rows are known to be temporary, and nobody goes on without      *)
(* having asked about them.                                                *)
AskInv ==
    /\ thread # "none" => temp
    /\ file \in Unsaved /\ ~temp => work.rows = {} /\ disk[file].rows = {}
    /\ ui = "go" /\ ~asked => ~temp \/ file = NoFile
    /\ ui \in {"save", "ask"} \/ (ui = "upgrade" /\ job = "save") =>
           asked \/ op = "save" \/ ui = "ask"

StoreInv == TypeOK /\ PlaceInv /\ SchemaInv /\ BatchInv /\ KeptInv /\ AskInv

-----------------------------------------------------------------------------
(* Contents and the tables of migrations.                                  *)

(* Recording one more migration adds its tables.                           *)
LEMMA TablesAdd ==
    ASSUME NEW D, NEW m
    PROVE  TablesOf(D \cup {m}) = TablesOf(D) \cup Begins(m, Migrations[m])
BY DEF TablesOf, Tables, Begins

(* One more query adds its table.                                          *)
LEMMA BeginsAdd ==
    ASSUME NEW m, NEW n \in Nat
    PROVE  Begins(m, n + 1) = Begins(m, n) \cup {<<m, n + 1>>}
<1>1. 1..(n + 1) = 1..n \cup {n + 1}
  OBVIOUS
<1> QED
  BY <1>1 DEF Begins

(* Before the first query there is none of its tables.                     *)
LEMMA BeginsNone ==
    ASSUME NEW m
    PROVE  Begins(m, 0) = {}
BY DEF Begins

(* The tables of migrations are tables.                                    *)
LEMMA TablesType ==
    ASSUME NEW m \in DOMAIN Migrations, NEW q \in 1..Migrations[m]
    PROVE  <<m, q>> \in TablesOf(DOMAIN Migrations)
BY DEF TablesOf, Tables

(* Migrations are numbered, and have a number of queries.                  *)
LEMMA MigrationType ==
    ASSUME NEW m \in DOMAIN Migrations
    PROVE  m \in Nat /\ Migrations[m] \in Nat
BY TraceStoreAssumption

(* Changing one part of a database leaves the others.                      *)
LEMMA SchemaUpdate ==
    ASSUME NEW c \in Contents, NEW x \in SUBSET TablesOf(DOMAIN Migrations)
    PROVE  LET d == [c EXCEPT !.schema = x]
           IN  /\ d \in Contents /\ d.schema = x
               /\ d.done = c.done /\ d.rows = c.rows /\ d.types = c.types
BY DEF Contents

(* Recording a migration leaves the tables and rows.                       *)
LEMMA DoneUpdate ==
    ASSUME NEW c \in Contents, NEW x \in SUBSET DOMAIN Migrations
    PROVE  LET d == [c EXCEPT !.done = x]
           IN  /\ d \in Contents /\ d.done = x
               /\ d.schema = c.schema /\ d.rows = c.rows /\ d.types = c.types
BY DEF Contents

(* Adding rows leaves tables, migrations and types.                        *)
LEMMA RowsUpdate ==
    ASSUME NEW c \in Contents, NEW x \in SUBSET Rows
    PROVE  LET d == [c EXCEPT !.rows = x]
           IN  /\ d \in Contents /\ d.rows = x /\ d.types = c.types
               /\ d.schema = c.schema /\ d.done = c.done
BY DEF Contents

(* Adding a type leaves everything else.                                   *)
LEMMA TypesUpdate ==
    ASSUME NEW c \in Contents, NEW t \in SUBSET (Nat \X Names)
    PROVE  LET d == [c EXCEPT !.types = t]
           IN  /\ d \in Contents /\ d.types = t /\ d.rows = c.rows
               /\ d.schema = c.schema /\ d.done = c.done
BY DEF Contents

(* A new database.                                                         *)
LEMMA EmptyFacts ==
    /\ Empty \in Contents /\ Empty # Absent /\ Whole(Empty)
    /\ Empty.rows = {} /\ Empty.done = {}
<1>1. Empty \in Contents
  BY DEF Empty, Contents
<1>2. TablesOf({}) = {}
  BY DEF TablesOf
<1> QED
  BY <1>1, <1>2, AbsentAssumption DEF Empty, Whole

(* The parts of a batch are numbered from 1.                               *)
LEMMA PartsType == Cardinality(Parts) \in Nat /\ Parts = 1..Cardinality(Parts)
BY TraceStoreAssumption, FS_CardinalityType

(* A trace of an earlier version is whole.                                 *)
LEMMA TraceFacts ==
    ASSUME NEW c \in Traces
    PROVE  /\ c \in Contents /\ Whole(c)
           /\ \A r \in c.rows : r.batch = 0 /\ PartsOf(c.rows, 0) = Parts
<1>1. PICK k \in 1..Len(Migrations), n \in Names : c = Trace(k, n)
  BY DEF Traces
<1>2. 1..k \subseteq DOMAIN Migrations
  BY TraceStoreAssumption
<1>3. TablesOf(1..k) \subseteq TablesOf(DOMAIN Migrations)
  BY <1>2 DEF TablesOf
<1> DEFINE rows == {[batch |-> 0, part |-> p, id |-> 0, name |-> n] : p \in Parts}
<1>4. rows \subseteq Rows
  BY DEF Rows
<1>5. {<<0, n>>} \subseteq Nat \X Names
  OBVIOUS
<1>6. c = [schema |-> TablesOf(1..k), done |-> 1..k, rows |-> rows, types |-> {<<0, n>>}]
  BY <1>1 DEF Trace
<1>7. PartsOf(rows, 0) = Parts
  <2>1. {s \in rows : s.batch = 0} = rows
    OBVIOUS
  <2>2. \A s \in rows : s.part \in Parts
    OBVIOUS
  <2>3. ASSUME NEW p \in Parts
        PROVE  \E s \in rows : s.part = p
    <3>1. [batch |-> 0, part |-> p, id |-> 0, name |-> n] \in rows
      OBVIOUS
    <3> QED
      BY <3>1
  <2> QED
    BY <2>1, <2>2, <2>3 DEF PartsOf
<1>8. c \in Contents
  <2> HIDE DEF rows
  <2> QED
    BY <1>2, <1>3, <1>4, <1>5, <1>6 DEF Contents
<1>9. \A r \in rows : r.batch = 0
  OBVIOUS
<1> HIDE DEF rows
<1> QED
  BY <1>6, <1>7, <1>8, <1>9 DEF Whole

-----------------------------------------------------------------------------
(* What the actions that write do to the connection and its file.          *)

(* A query of a migration stays in the transaction it finds or begins.     *)
LEMMA QueryEffect ==
    ASSUME StoreInv, NEW m \in todo, UpgradeQuery(m)
    PROVE  /\ disk' = disk /\ inTx' = TRUE /\ work' \in Contents
           /\ work'.schema = work.schema \cup {<<m, step + 1>>}
           /\ work'.done = work.done /\ work'.rows = work.rows
<1>1. inTx \/ step = 0
  BY DEF StoreInv, TypeOK, WindowOK, SchemaInv
<1>2. m \in DOMAIN Migrations /\ step \in Nat /\ step < Migrations[m]
  BY DEF StoreInv, TypeOK, WindowOK, UpgradeQuery, StepsLeft
<1>3. step + 1 \in 1..Migrations[m]
  BY <1>2, MigrationType
<1>4. work \in Contents
  BY DEF StoreInv, TypeOK, StoreOK
<1>5. work.schema \cup {<<m, step + 1>>} \in SUBSET TablesOf(DOMAIN Migrations)
  <2>1. <<m, step + 1>> \in TablesOf(DOMAIN Migrations)
    BY <1>2, <1>3, TablesType
  <2>2. work.schema \in SUBSET TablesOf(DOMAIN Migrations)
    BY <1>4 DEF Contents
  <2> QED
    BY <2>1, <2>2
<1>6. work' = [work EXCEPT !.schema = work.schema \cup {<<m, step + 1>>}]
  BY DEF UpgradeQuery
<1>7. disk' = disk /\ inTx' = TRUE
  BY <1>1 DEF UpgradeQuery, Begun, StoreInv, TypeOK, SessionOK
<1> QED
  BY <1>4, <1>5, <1>6, <1>7, SchemaUpdate

(* The open file as it is on disk.                                         *)
LEMMA OpenFile ==
    ASSUME StoreInv, file # NoFile
    PROVE  /\ file \in Paths /\ disk[file] \in Contents /\ disk[file] # Absent
           /\ Whole(disk[file])
BY DEF StoreInv, TypeOK, StoreOK, PlaceInv, SchemaInv

(* After its last query a migration is recorded: the connection, and with  *)
(* the commit the file, has the tables of the recorded migrations.         *)
LEMMA RecordEffect ==
    ASSUME StoreInv, NEW m \in todo, UpgradeRecord(m)
    PROVE  /\ work' \in Contents /\ Whole(work')
           /\ \/ disk' = [disk EXCEPT ![file] = work'] /\ work'.rows = work.rows
              \/ disk' = disk /\ work'.rows = work.rows
              \/ disk' = disk /\ work' = disk[file]
<1> DEFINE c == [work EXCEPT !.done = work.done \cup {m}]
<1>1. m \in DOMAIN Migrations /\ step \in Nat /\ ~(step < Migrations[m])
  BY DEF StoreInv, TypeOK, WindowOK, UpgradeRecord, StepsLeft
<1>2. work \in Contents /\ ui = "upgrade" /\ IsNext(m)
  BY DEF StoreInv, TypeOK, StoreOK, UpgradeRecord, Upgrading
<1>3. work.schema = TablesOf(work.done) \cup Begins(m, Migrations[m])
  <2>1. CASE step = 0
    <3>1. Migrations[m] = 0
      BY <1>1, <2>1, MigrationType
    <3>2. work.schema = TablesOf(work.done)
      BY <2>1 DEF StoreInv, SchemaInv, Whole
    <3> QED
      BY <3>1, <3>2, BeginsNone
  <2>2. CASE step > 0
    <3>1. PICK k \in todo : /\ IsNext(k) /\ step <= Migrations[k]
                            /\ work.schema = TablesOf(work.done) \cup Begins(k, step)
      BY <2>2 DEF StoreInv, SchemaInv
    <3>2. k = m
      <4>1. k <= m /\ m <= k
        BY <1>2, <3>1 DEF IsNext
      <4>2. k \in Nat /\ m \in Nat
        BY <1>1, MigrationType DEF StoreInv, TypeOK, WindowOK
      <4> QED
        BY <4>1, <4>2
    <3>3. step = Migrations[m]
      BY <1>1, <3>1, <3>2, MigrationType
    <3> QED
      BY <3>1, <3>2, <3>3
  <2> QED
    BY <1>1, <2>1, <2>2
<1>4. work.done \cup {m} \in SUBSET DOMAIN Migrations
  BY <1>1, <1>2 DEF Contents
<1>5. /\ c \in Contents /\ c.done = work.done \cup {m}
      /\ c.schema = work.schema /\ c.rows = work.rows
  BY <1>2, <1>4, DoneUpdate
<1>6. Whole(c)
  <2> HIDE DEF c
  <2> QED
    BY <1>3, <1>5, TablesAdd DEF Whole
<1>7. file # NoFile
  BY <1>2 DEF StoreInv, PlaceInv
<1>8. \/ disk' = [disk EXCEPT ![file] = c] /\ work' = c
      \/ disk' = disk /\ work' = c
      \/ disk' = disk /\ work' = disk[file]
  BY DEF UpgradeRecord, Commit, CommitFails
<1> HIDE DEF c
<1> QED
  BY <1>5, <1>6, <1>7, <1>8, OpenFile

(* An insert of the message thread is inside its transaction; it adds a    *)
(* row or, if it fails, marks the batch as torn.                           *)
LEMMA InsertEffect ==
    ASSUME StoreInv, NEW n \in Names, InsertRow(n)
    PROVE  /\ disk' = disk /\ work' \in Contents
           /\ work'.schema = work.schema /\ work'.done = work.done
           /\ \/ /\ torn' = torn
                 /\ \E id \in Nat : work'.rows = work.rows \cup
                       {[batch |-> batch, part |-> part + 1, id |-> id, name |-> n]}
              \/ torn' = torn \cup {batch} /\ work'.rows = work.rows
<1> DEFINE new == n \notin DOMAIN ids
           id  == IF new THEN next ELSE ids[n]
           row == [batch |-> batch, part |-> part + 1, id |-> id, name |-> n]
           all == IF new THEN work.types \cup {<<id, n>>} ELSE work.types
<1>1. id \in Nat
  BY DEF StoreInv, TypeOK, NamesOK
<1>2. row \in Rows
  <2>1. part + 1 \in Parts /\ batch \in Nat
    BY PartsType DEF StoreInv, TypeOK, SessionOK, InsertRow
  <2> HIDE DEF id
  <2> QED
    BY <1>1, <2>1 DEF Rows
<1>3. work \in Contents /\ work.rows \in SUBSET Rows /\ work.types \in SUBSET (Nat \X Names)
  BY DEF StoreInv, TypeOK, StoreOK, Contents
<1>4. all \in SUBSET (Nat \X Names)
  <2> HIDE DEF id
  <2> QED
    BY <1>1, <1>3
<1>5. work.rows \cup {row} \in SUBSET Rows
  BY <1>2, <1>3
<1>6. inTx = TRUE
  BY DEF StoreInv, BatchInv, InsertRow, TypeOK, SessionOK
<1>7. PICK rows \in {work.rows \cup {row}, work.rows}, ts \in {all, work.types} :
         /\ Write([work EXCEPT !.rows = rows, !.types = ts])
         /\ torn' = IF row \in rows THEN torn ELSE torn \cup {batch}
  BY DEF InsertRow
<1> HIDE DEF all, row
<1>8. work' = [work EXCEPT !.rows = rows, !.types = ts] /\ disk' = disk
  BY <1>6, <1>7 DEF Write
<1>9. rows \in SUBSET Rows /\ ts \in SUBSET (Nat \X Names)
  BY <1>3, <1>4, <1>5, <1>7
<1>10. /\ work' \in Contents /\ work'.rows = rows
       /\ work'.schema = work.schema /\ work'.done = work.done
  <2> DEFINE c == [work EXCEPT !.rows = rows]
  <2>1. /\ c \in Contents /\ c.rows = rows
        /\ c.schema = work.schema /\ c.done = work.done
    BY <1>3, <1>9, RowsUpdate
  <2>2. work' = [c EXCEPT !.types = ts]
    BY <1>8
  <2> HIDE DEF c
  <2> QED
    BY <1>9, <2>1, <2>2, TypesUpdate
<1>11. \/ torn' = torn /\ work'.rows = work.rows \cup {row}
       \/ torn' = torn \cup {batch} /\ work'.rows = work.rows
  <2>1. CASE row \in rows
    BY <1>7, <1>10, <2>1
  <2>2. CASE row \notin rows
    BY <1>7, <1>10, <2>2
  <2> QED
    BY <2>1, <2>2
<1> HIDE DEF id
<1> QED
  BY <1>1, <1>8, <1>10, <1>11 DEF row

(* A batch is committed, left in its transaction, or gone.                 *)
LEMMA BatchEffect ==
    ASSUME StoreInv, CommitBatch
    PROVE  /\ file \in Unsaved /\ ui # "upgrade" /\ step = 0
           /\ \/ disk' = [disk EXCEPT ![file] = work] /\ work' = work
              \/ disk' = disk /\ work' = work
              \/ disk' = disk /\ work' = disk[file]
BY DEF StoreInv, PlaceInv, SchemaInv, CommitBatch, Commit, CommitFails, TypeOK, WindowOK

-----------------------------------------------------------------------------
(* The steps keep the types.                                               *)

(* Every action keeps the place of the user interface.                     *)
LEMMA WindowStep ==
    ASSUME StoreInv, Next
    PROVE  WindowOK'
<1> USE DEF window, AfterJob, AfterSave
<1>1. WindowOK
  BY DEF StoreInv, TypeOK
<1>2. CASE \E m \in todo : UpgradeQuery(m) \/ UpgradeRecord(m) \/ UpgradeFails(m)
  BY <1>1, <1>2 DEF WindowOK, UpgradeQuery, UpgradeRecord, UpgradeFails
<1>3. CASE \/ RegisterFails \/ UpgradeDone \/ BeginBatch \/ CommitBatch
           \/ \E n \in Names : InsertRow(n)
  BY <1>1, <1>3 DEF WindowOK, RegisterFails, UpgradeDone, BeginBatch, CommitBatch, InsertRow
<1>4. CASE \/ \E o \in {"open", "start", "run", "save", "exit"} : Choose(o)
           \/ \E a \in {"save", "go", "idle"} : Answer(a)
           \/ SaveNothing \/ SaveOntoItself \/ CloseAsserts \/ OpenNothing
           \/ Exit \/ StopProfiling
  BY <1>1, <1>4 DEF WindowOK, Choose, Answer, SaveNothing, SaveOntoItself, CloseAsserts,
     OpenNothing, Exit, StopProfiling
<1>5. CASE \E f \in Files : SaveFails(f) \/ SaveCopies(f) \/ OpenTrace(f)
  BY <1>1, <1>5 DEF WindowOK, SaveFails, SaveCopies, OpenTrace, Incomplete
<1>6. CASE RunUnityApp \/ \E t \in Temps : StartProfiling(t)
  BY <1>1, <1>6 DEF WindowOK, RunUnityApp, StartProfiling, Created, Going, Incomplete
<1> QED
  BY <1>2, <1>3, <1>4, <1>5, <1>6 DEF Next

(* Removing a file or closing leaves contents or nothing.                  *)
LEMMA DiskUpdate ==
    ASSUME NEW d \in [Paths -> Contents \cup {Absent}], NEW p, NEW c \in Contents \cup {Absent}
    PROVE  /\ [d EXCEPT ![p] = c] \in [Paths -> Contents \cup {Absent}]
           /\ Closed(d) \in [Paths -> Contents \cup {Absent}]
BY DEF Closed

(* Every action leaves files and connection with contents.                 *)
LEMMA StoreTypeStep ==
    ASSUME StoreInv, Next
    PROVE  StoreOK'
<1> USE DEF window, store
<1>1. StoreOK
  BY DEF StoreInv, TypeOK
<1>2. CASE \E m \in todo : UpgradeQuery(m)
  <2>1. PICK m \in todo : UpgradeQuery(m)
    BY <1>2
  <2>2. disk' = disk /\ work' \in Contents
    BY <2>1, QueryEffect
  <2> QED
    BY <1>1, <2>1, <2>2 DEF StoreOK, UpgradeQuery
<1>3. CASE \E m \in todo : UpgradeRecord(m)
  <2>1. PICK m \in todo : UpgradeRecord(m)
    BY <1>3
  <2>2. work' \in Contents /\ (disk' = disk \/ disk' = [disk EXCEPT ![file] = work'])
    BY <2>1, RecordEffect
  <2> QED
    BY <1>1, <2>1, <2>2, DiskUpdate DEF StoreOK, UpgradeRecord
<1>4. CASE \E m \in todo : UpgradeFails(m)
  <2>1. file # NoFile
    BY <1>4 DEF StoreInv, PlaceInv, UpgradeFails, Upgrading
  <2> QED
    BY <1>1, <1>4, <2>1, OpenFile DEF StoreOK, UpgradeFails, Rollback
<1>5. CASE \E n \in Names : InsertRow(n)
  <2>1. PICK n \in Names : InsertRow(n)
    BY <1>5
  <2>2. disk' = disk /\ work' \in Contents
    BY <2>1, InsertEffect
  <2> QED
    BY <1>1, <2>1, <2>2 DEF StoreOK, InsertRow
<1>6. CASE CommitBatch
  <2>1. file # NoFile
    BY <1>6, TraceStoreAssumption DEF StoreInv, PlaceInv, CommitBatch, Unsaved
  <2> QED
    BY <1>1, <1>6, <2>1, OpenFile, BatchEffect, DiskUpdate DEF StoreOK, CommitBatch
<1>7. CASE \/ RegisterFails \/ UpgradeDone \/ BeginBatch
           \/ \E o \in {"open", "start", "run", "save", "exit"} : Choose(o)
           \/ \E a \in {"save", "go", "idle"} : Answer(a)
           \/ SaveNothing \/ SaveOntoItself \/ CloseAsserts \/ StopProfiling
  BY <1>1, <1>7 DEF StoreOK, RegisterFails, UpgradeDone, BeginBatch, Choose, Answer,
     SaveNothing, SaveOntoItself, CloseAsserts, StopProfiling
<1>8. CASE \E f \in Files : SaveFails(f) \/ SaveCopies(f)
  <2>1. PICK f \in Files : SaveFails(f) \/ SaveCopies(f)
    BY <1>8
  <2>2. [disk EXCEPT ![f] = Absent] \in [Paths -> Contents \cup {Absent}]
    BY <1>1, DiskUpdate DEF StoreOK
  <2>3. [disk EXCEPT ![f] = work] \in [Paths -> Contents \cup {Absent}]
    BY <1>1, DiskUpdate DEF StoreOK
  <2>4. Closed([disk EXCEPT ![f] = work]) \in [Paths -> Contents \cup {Absent}]
    BY <2>3, DiskUpdate
  <2> QED
    BY <1>1, <2>1, <2>2, <2>3, <2>4 DEF StoreOK, SaveFails, SaveCopies, Paths
<1>9. CASE \/ OpenNothing \/ \E f \in Files : OpenTrace(f)
  BY <1>1, <1>9, DiskUpdate, EmptyFacts DEF StoreOK, OpenNothing, OpenTrace, OpenedName, Paths
<1>10. CASE RunUnityApp
  <2>1. Closed(disk) \in [Paths -> Contents \cup {Absent}]
    BY <1>1, DiskUpdate DEF StoreOK
  <2>2. [Closed(disk) EXCEPT ![Anon] = Empty] \in [Paths -> Contents \cup {Absent}]
    BY <2>1, DiskUpdate, EmptyFacts
  <2> QED
    BY <1>1, <1>10, <2>1, <2>2, EmptyFacts DEF StoreOK, RunUnityApp, Created, Paths
<1>11. CASE \E t \in Temps : StartProfiling(t)
  <2>1. PICK t \in Temps : StartProfiling(t)
    BY <1>11
  <2> DEFINE d == IF name \in Paths THEN [Closed(disk) EXCEPT ![name] = Absent]
                                    ELSE Closed(disk)
  <2>2. d \in [Paths -> Contents \cup {Absent}]
    BY <1>1, DiskUpdate DEF StoreOK
  <2>3. Created(d, t) /\ name' = t
    BY <2>1 DEF StartProfiling
  <2> HIDE DEF d
  <2>4. [d EXCEPT ![t] = Empty] \in [Paths -> Contents \cup {Absent}]
    BY <2>2, DiskUpdate, EmptyFacts
  <2> QED
    BY <1>1, <2>2, <2>3, <2>4, EmptyFacts DEF StoreOK, Created, Paths
<1>12. CASE Exit
  <2>1. Closed(disk) \in [Paths -> Contents \cup {Absent}]
    BY <1>1, DiskUpdate DEF StoreOK
  <2>2. [Closed(disk) EXCEPT ![name] = Absent] \in [Paths -> Contents \cup {Absent}]
    BY <2>1, DiskUpdate
  <2> QED
    BY <1>1, <1>12, <2>1, <2>2, EmptyFacts DEF StoreOK, Exit
<1> QED
  BY <1>2, <1>3, <1>4, <1>5, <1>6, <1>7, <1>8, <1>9, <1>10, <1>11, <1>12 DEF Next

(* Every action keeps the place of the message thread and the flags.       *)
LEMMA SessionStep ==
    ASSUME StoreInv, Next
    PROVE  SessionOK'
<1> USE DEF window, store, history
<1>1. SessionOK
  BY DEF StoreInv, TypeOK
<1>2. CASE \E m \in todo : UpgradeQuery(m) \/ UpgradeRecord(m) \/ UpgradeFails(m)
  BY <1>1, <1>2 DEF SessionOK, UpgradeQuery, UpgradeRecord, UpgradeFails, Begun, Commit,
     CommitFails, Rollback
<1>3. CASE RegisterFails \/ UpgradeDone \/ BeginBatch
  <2>1. thread' \in {"none", "idle", "batch"} /\ part' \in 0..Cardinality(Parts) /\ batch' \in Nat
    BY <1>1, <1>3, PartsType DEF SessionOK, RegisterFails, UpgradeDone, BeginBatch
  <2>2. (inTx' = inTx \/ inTx' = TRUE) /\ temp' \in {temp, TRUE, FALSE} /\ asked' = asked
    BY <1>3 DEF RegisterFails, UpgradeDone, StartedTemp, BeginBatch, Begun
  <2> QED
    BY <1>1, <2>1, <2>2 DEF SessionOK
<1>4. CASE CommitBatch \/ \E n \in Names : InsertRow(n)
  <2>3. \/ thread' = "idle" /\ part' = part /\ batch' = batch + 1
        \/ thread' = thread /\ part < Cardinality(Parts) /\ part' = part + 1 /\ batch' = batch
    BY <1>4 DEF CommitBatch, InsertRow
  <2>1. thread' \in {"none", "idle", "batch"} /\ part' \in 0..Cardinality(Parts) /\ batch' \in Nat
    BY <1>1, <2>3, PartsType DEF SessionOK
  <2>2. inTx' \in {inTx, TRUE, FALSE} /\ temp' = temp /\ asked' = asked
    BY <1>4 DEF CommitBatch, Commit, CommitFails, InsertRow
  <2> QED
    BY <1>1, <2>1, <2>2 DEF SessionOK
<1>5. CASE \/ \E o \in {"open", "start", "run", "save", "exit"} : Choose(o)
           \/ \E a \in {"save", "go", "idle"} : Answer(a)
           \/ SaveNothing \/ SaveOntoItself \/ CloseAsserts \/ OpenNothing
           \/ Exit \/ StopProfiling
  BY <1>1, <1>5 DEF SessionOK, Choose, Answer, SaveNothing, SaveOntoItself, CloseAsserts,
     OpenNothing, Exit, StopProfiling
<1>6. CASE \E f \in Files : SaveFails(f) \/ SaveCopies(f) \/ OpenTrace(f)
  BY <1>1, <1>6 DEF SessionOK, SaveFails, SaveCopies, OpenTrace
<1>7. CASE RunUnityApp \/ \E t \in Temps : StartProfiling(t)
  BY <1>1, <1>7 DEF SessionOK, RunUnityApp, StartProfiling, Created
<1> QED
  BY <1>2, <1>3, <1>4, <1>5, <1>6, <1>7 DEF Next

(* insert into a map adds entries of the right kind.                       *)
LEMMA LoadedType ==
    ASSUME NEW D, NEW R, NEW m, NEW new, DOMAIN m \subseteq D, DOMAIN new \subseteq D,
           \A x \in DOMAIN m : m[x] \in R, \A x \in DOMAIN new : new[x] \in R
    PROVE  /\ DOMAIN Loaded(m, new) \subseteq D
           /\ \A x \in DOMAIN Loaded(m, new) : Loaded(m, new)[x] \in R
BY DEF Loaded

(* The maps read from a database.                                          *)
LEMMA ReadType ==
    ASSUME NEW c \in Contents
    PROVE  /\ DOMAIN IdsOf(c) \subseteq Names /\ \A n \in DOMAIN IdsOf(c) : IdsOf(c)[n] \in Nat
           /\ DOMAIN TypesOf(c) \subseteq Nat
           /\ \A i \in DOMAIN TypesOf(c) : TypesOf(c)[i] \in Names
<1>1. c.types \subseteq Nat \X Names
  BY DEF Contents
<1> DEFINE ty == c.types
<1> HIDE DEF ty
<1>2. ty \subseteq Nat \X Names
  BY <1>1 DEF ty
<1>3. ASSUME NEW n \in {t[2] : t \in ty}
      PROVE  n \in Names /\ (CHOOSE t \in ty : t[2] = n)[1] \in Nat
  BY <1>2
<1>4. ASSUME NEW i \in {t[1] : t \in ty}
      PROVE  i \in Nat /\ (CHOOSE t \in ty : t[1] = i)[2] \in Names
  BY <1>2
<1> QED
  BY <1>3, <1>4 DEF IdsOf, TypesOf, ty

(* Every action keeps the maps between types and ids.                      *)
LEMMA NamesStep ==
    ASSUME StoreInv, Next
    PROVE  NamesOK'
<1> USE DEF names, history
<1>1. NamesOK /\ work \in Contents
  BY DEF StoreInv, TypeOK, StoreOK
<1>2. CASE \E m \in todo : UpgradeQuery(m) \/ UpgradeRecord(m) \/ UpgradeFails(m)
  BY <1>1, <1>2 DEF NamesOK, UpgradeQuery, UpgradeRecord, UpgradeFails
<1>3. CASE UpgradeDone
  <2>1. CASE ids' = Loaded(ids, IdsOf(work)) /\ types' = Loaded(types, TypesOf(work))
    <3>1. DOMAIN ids' \subseteq Names /\ \A n \in DOMAIN ids' : ids'[n] \in Nat
      BY <1>1, <2>1, LoadedType, ReadType DEF NamesOK
    <3>2. DOMAIN types' \subseteq Nat /\ \A i \in DOMAIN types' : types'[i] \in Names
      BY <1>1, <2>1, LoadedType, ReadType DEF NamesOK
    <3> QED
      BY <1>1, <1>3, <3>1, <3>2 DEF NamesOK, UpgradeDone
  <2>2. CASE ids' = ids /\ types' = types
    BY <1>1, <1>3, <2>2 DEF NamesOK, UpgradeDone
  <2> QED
    BY <1>3, <2>1, <2>2 DEF UpgradeDone
<1>4. CASE \E n \in Names : InsertRow(n)
  <2>1. PICK n \in Names : InsertRow(n)
    BY <1>4
  <2> DEFINE new == n \notin DOMAIN ids
             id  == IF new THEN next ELSE ids[n]
  <2>2. id \in Nat
    BY <1>1 DEF NamesOK
  <2>3. /\ ids' = Loaded(ids, [x \in {n} |-> id])
        /\ types' = IF new THEN Loaded(types, [x \in {id} |-> n]) ELSE types
        /\ next' = IF new THEN next + 1 ELSE next
    BY <2>1 DEF InsertRow
  <2> HIDE DEF id, new
  <2> DEFINE f == [x \in {n} |-> id]
             g == [x \in {id} |-> n]
  <2>6. DOMAIN f \subseteq Names /\ \A x \in DOMAIN f : f[x] \in Nat
    BY <2>2
  <2>7. DOMAIN g \subseteq Nat /\ \A x \in DOMAIN g : g[x] \in Names
    BY <2>2
  <2>8. ids' = Loaded(ids, f) /\ (types' = types \/ types' = Loaded(types, g))
    BY <2>3
  <2> HIDE DEF f, g
  <2>4. DOMAIN ids' \subseteq Names /\ \A x \in DOMAIN ids' : ids'[x] \in Nat
    BY <1>1, <2>6, <2>8, LoadedType DEF NamesOK
  <2>5. DOMAIN types' \subseteq Nat /\ \A i \in DOMAIN types' : types'[i] \in Names
    <3>1. CASE types' = types
      BY <1>1, <3>1 DEF NamesOK
    <3>2. CASE types' = Loaded(types, g)
      BY <1>1, <2>7, <3>2, LoadedType DEF NamesOK
    <3> QED
      BY <2>8, <3>1, <3>2
  <2> QED
    BY <1>1, <2>3, <2>4, <2>5 DEF NamesOK
<1>5. CASE \/ RegisterFails \/ BeginBatch \/ CommitBatch
           \/ \E o \in {"open", "start", "run", "save", "exit"} : Choose(o)
           \/ \E a \in {"save", "go", "idle"} : Answer(a)
           \/ SaveNothing \/ SaveOntoItself \/ CloseAsserts \/ OpenNothing
           \/ Exit \/ StopProfiling
  BY <1>1, <1>5 DEF NamesOK, RegisterFails, BeginBatch, CommitBatch, Choose, Answer,
     SaveNothing, SaveOntoItself, CloseAsserts, OpenNothing, Exit, StopProfiling
<1>6. CASE \/ \E f \in Files : SaveFails(f) \/ SaveCopies(f) \/ OpenTrace(f)
           \/ RunUnityApp \/ \E t \in Temps : StartProfiling(t)
  BY <1>1, <1>6 DEF NamesOK, SaveFails, SaveCopies, OpenTrace, RunUnityApp, StartProfiling
<1> QED
  BY <1>2, <1>3, <1>4, <1>5, <1>6 DEF Next

(* A failure or a request is counted.                                      *)
LEMMA CountType ==
    ASSUME NEW c \in [ops : Nat, faults : Nat]
    PROVE  /\ [c EXCEPT !.faults = c.faults + 1] \in [ops : Nat, faults : Nat]
           /\ [c EXCEPT !.ops = c.ops + 1] \in [ops : Nat, faults : Nat]
OBVIOUS

(* Every action keeps the history and the counters.                        *)
LEMMA HistoryStep ==
    ASSUME StoreInv, Next
    PROVE  HistoryOK'
<1> USE DEF history
<1>1. HistoryOK
  BY DEF StoreInv, TypeOK
<1>2. [count EXCEPT !.faults = count.faults + 1] \in [ops : Nat, faults : Nat]
  BY <1>1, CountType DEF HistoryOK
<1>3. [count EXCEPT !.ops = count.ops + 1] \in [ops : Nat, faults : Nat]
  BY <1>1, CountType DEF HistoryOK
<1>4. CASE \E m \in todo : UpgradeQuery(m) \/ UpgradeRecord(m) \/ UpgradeFails(m)
  <2>1. count' = count \/ count' = [count EXCEPT !.faults = count.faults + 1]
    BY <1>4 DEF UpgradeQuery, UpgradeRecord, UpgradeFails, Fault
  <2>2. UNCHANGED history
    BY <1>4 DEF UpgradeQuery, UpgradeRecord, UpgradeFails
  <2> QED
    BY <1>1, <1>2, <2>1, <2>2 DEF HistoryOK
<1>5. CASE UpgradeDone
  <2>1. work.rows \in SUBSET Rows
    BY DEF StoreInv, TypeOK, StoreOK, Contents
  <2>2. job = "save" => file \in Files
    BY <1>5 DEF StoreInv, PlaceInv, UpgradeDone, Upgrading
  <2> QED
    BY <1>1, <1>5, <2>1, <2>2 DEF HistoryOK, UpgradeDone
<1>6. CASE CommitBatch \/ \E n \in Names : InsertRow(n)
  <2>1. count' = count \/ count' = [count EXCEPT !.faults = count.faults + 1]
    BY <1>6 DEF CommitBatch, InsertRow, Fault
  <2>2. torn' \subseteq Nat
    <3>1. torn \subseteq Nat /\ batch \in Nat
      BY <1>1 DEF HistoryOK, StoreInv, TypeOK, SessionOK
    <3>2. \A r \in work.rows : r.batch \in Nat
      BY DEF StoreInv, TypeOK, StoreOK, Contents, Rows
    <3>3. CASE CommitBatch
      BY <3>1, <3>2, <3>3 DEF CommitBatch, Lost
    <3>4. CASE \E n \in Names : InsertRow(n)
      BY <3>1, <3>4, InsertEffect
    <3> QED
      BY <1>6, <3>3, <3>4
  <2>3. UNCHANGED <<kept, last, sources>>
    BY <1>6 DEF CommitBatch, InsertRow
  <2> QED
    BY <1>1, <1>2, <2>1, <2>2, <2>3 DEF HistoryOK
<1>7. CASE \E o \in {"open", "start", "run", "save", "exit"} : Choose(o)
  BY <1>1, <1>3, <1>7 DEF HistoryOK, Choose
<1>8. CASE \E f \in Files : SaveFails(f) \/ SaveCopies(f) \/ OpenTrace(f)
  <2>1. PICK f \in Files : SaveFails(f) \/ SaveCopies(f) \/ OpenTrace(f)
    BY <1>8
  <2>2. count' = count \/ count' = [count EXCEPT !.faults = count.faults + 1]
    BY <2>1 DEF SaveFails, SaveCopies, OpenTrace, Fault
  <2>3. /\ kept' = kept \/ kept' = [kept EXCEPT ![f] = Absent]
        /\ UNCHANGED <<last, torn>> /\ sources' \in {sources, sources + 1}
    BY <2>1 DEF SaveFails, SaveCopies, OpenTrace
  <2>4. count' \in [ops : Nat, faults : Nat]
    BY <1>1, <1>2, <2>2 DEF HistoryOK
  <2>5. kept' \in [Files -> (SUBSET Rows) \cup {Absent}]
    BY <1>1, <2>3 DEF HistoryOK
  <2> QED
    BY <1>1, <2>3, <2>4, <2>5 DEF HistoryOK
<1>9. CASE \/ RegisterFails \/ BeginBatch
           \/ \E a \in {"save", "go", "idle"} : Answer(a)
           \/ SaveNothing \/ SaveOntoItself \/ CloseAsserts \/ OpenNothing
           \/ Exit \/ StopProfiling
  BY <1>1, <1>9 DEF HistoryOK, RegisterFails, BeginBatch, Answer,
     SaveNothing, SaveOntoItself, CloseAsserts, OpenNothing, Exit, StopProfiling
<1>10. CASE RunUnityApp \/ \E t \in Temps : StartProfiling(t)
  BY <1>1, <1>10 DEF HistoryOK, RunUnityApp, StartProfiling, Created
<1> QED
  BY <1>4, <1>5, <1>6, <1>7, <1>8, <1>9, <1>10 DEF Next

-----------------------------------------------------------------------------
(* Where the contents of files and of the connection come from.            *)

Upgrades == \E m \in todo : UpgradeQuery(m) \/ UpgradeRecord(m) \/ UpgradeFails(m)

(* Between the queries of a migration nothing else happens.                *)
LEMMA StepZero ==
    ASSUME StoreInv, Next, ~Upgrades
    PROVE  step = 0 /\ step' = 0
<1> USE DEF window
<1>1. step > 0 => ui = "upgrade" /\ todo # {} /\ thread = "none"
  BY DEF StoreInv, SchemaInv, PlaceInv
<1>2. step' = step
  <2>1. CASE \/ RegisterFails \/ UpgradeDone \/ BeginBatch \/ CommitBatch
             \/ \E n \in Names : InsertRow(n)
             \/ \E o \in {"open", "start", "run", "save", "exit"} : Choose(o)
             \/ \E a \in {"save", "go", "idle"} : Answer(a)
             \/ SaveNothing \/ SaveOntoItself \/ CloseAsserts \/ OpenNothing
             \/ Exit \/ StopProfiling
    BY <2>1 DEF RegisterFails, UpgradeDone, BeginBatch, CommitBatch, InsertRow, Choose, Answer,
       SaveNothing, SaveOntoItself, CloseAsserts, OpenNothing, Exit, StopProfiling
  <2>2. CASE \/ \E f \in Files : SaveFails(f) \/ SaveCopies(f) \/ OpenTrace(f)
             \/ RunUnityApp \/ \E t \in Temps : StartProfiling(t)
    BY <2>2 DEF SaveFails, SaveCopies, OpenTrace, RunUnityApp, StartProfiling
  <2> QED
    BY <2>1, <2>2 DEF Next, Upgrades
<1>3. ui # "upgrade" \/ todo = {} \/ thread # "none"
  <2>1. CASE \/ RegisterFails \/ UpgradeDone \/ BeginBatch \/ CommitBatch
             \/ \E n \in Names : InsertRow(n)
    BY <2>1 DEF RegisterFails, UpgradeDone, BeginBatch, CommitBatch, InsertRow
  <2>2. CASE \/ \E o \in {"open", "start", "run", "save", "exit"} : Choose(o)
             \/ \E a \in {"save", "go", "idle"} : Answer(a)
             \/ SaveNothing \/ SaveOntoItself \/ CloseAsserts \/ OpenNothing
             \/ Exit \/ StopProfiling
    BY <2>2 DEF Choose, Answer, SaveNothing, SaveOntoItself, CloseAsserts, OpenNothing, Exit,
       StopProfiling, Going
  <2>3. CASE \/ \E f \in Files : SaveFails(f) \/ SaveCopies(f) \/ OpenTrace(f)
             \/ RunUnityApp \/ \E t \in Temps : StartProfiling(t)
    BY <2>3 DEF SaveFails, SaveCopies, OpenTrace, RunUnityApp, StartProfiling, Going
  <2> QED
    BY <2>1, <2>2, <2>3 DEF Next, Upgrades
<1> QED
  BY <1>1, <1>2, <1>3 DEF StoreInv, TypeOK, WindowOK

(* The contents of a file are those it had, none, those of a new database, *)
(* or what the connection sees when a migration is recorded, a batch is    *)
(* committed or a trace is copied.                                         *)
LEMMA DiskOrigin ==
    ASSUME StoreInv, Next, NEW p \in Paths
    PROVE  \/ disk'[p] \in {disk[p], Absent, Empty}
           \/ p = file /\ disk'[p] = work' /\ \E m \in todo : UpgradeRecord(m)
           \/ p = file /\ disk'[p] = work /\ CommitBatch
           \/ disk'[p] = work /\ ~Busy /\ file # NoFile /\ \E f \in Files : SaveCopies(f)
<1> USE DEF window, store
<1>1. DOMAIN disk = Paths
  BY DEF StoreInv, TypeOK, StoreOK
<1>2. CASE \E m \in todo : UpgradeQuery(m) \/ UpgradeFails(m)
  BY <1>2, QueryEffect DEF UpgradeFails, Rollback
<1>3. CASE \E m \in todo : UpgradeRecord(m)
  BY <1>1, <1>3, RecordEffect
<1>4. CASE \E n \in Names : InsertRow(n)
  BY <1>4, InsertEffect
<1>5. CASE CommitBatch
  BY <1>1, <1>5, BatchEffect
<1>6. CASE \/ RegisterFails \/ UpgradeDone \/ BeginBatch
           \/ \E o \in {"open", "start", "run", "save", "exit"} : Choose(o)
           \/ \E a \in {"save", "go", "idle"} : Answer(a)
           \/ SaveNothing \/ SaveOntoItself \/ CloseAsserts \/ StopProfiling
  BY <1>6 DEF RegisterFails, UpgradeDone, BeginBatch, Choose, Answer,
     SaveNothing, SaveOntoItself, CloseAsserts, StopProfiling
<1>7. CASE \E f \in Files : SaveFails(f) \/ SaveCopies(f) \/ OpenTrace(f)
  BY <1>1, <1>7 DEF SaveFails, SaveCopies, OpenTrace, Closed
<1>8. CASE OpenNothing \/ Exit \/ RunUnityApp
  BY <1>1, <1>8 DEF OpenNothing, Exit, RunUnityApp, Created, Closed
<1>9. CASE \E t \in Temps : StartProfiling(t)
  BY <1>1, <1>9 DEF StartProfiling, Created, Closed
<1> QED
  BY <1>2, <1>3, <1>4, <1>5, <1>6, <1>7, <1>8, <1>9 DEF Next

(* What the connection sees is what it saw, a new database, what a file    *)
(* has, or what a query, a record or an insert made of it.                 *)
LEMMA WorkOrigin ==
    ASSUME StoreInv, Next
    PROVE  \/ work' = work /\ ~Upgrades
           \/ work' = Empty
           \/ \E p \in Paths : disk[p] # Absent /\ work' = disk[p]
           \/ \E m \in todo : UpgradeQuery(m) \/ UpgradeRecord(m)
           \/ \E n \in Names : InsertRow(n)
<1> USE DEF window, store
<1>1. CASE \E m \in todo : UpgradeFails(m)
  <2>1. file # NoFile /\ work' = disk[file]
    BY <1>1 DEF UpgradeFails, Rollback, Upgrading, StoreInv, PlaceInv
  <2> QED
    BY <2>1, OpenFile
<1>2. CASE Upgrades
  BY <1>1, <1>2 DEF Upgrades
<1>3. CASE CommitBatch
  <2>1. file # NoFile
    BY <1>3, BatchEffect, TraceStoreAssumption DEF Unsaved
  <2> QED
    BY <1>2, <1>3, <2>1, OpenFile, BatchEffect
<1>4. CASE \/ RegisterFails \/ UpgradeDone \/ BeginBatch
           \/ \E o \in {"open", "start", "run", "save", "exit"} : Choose(o)
           \/ \E a \in {"save", "go", "idle"} : Answer(a)
           \/ SaveNothing \/ SaveOntoItself \/ CloseAsserts \/ StopProfiling
  <2>1. work' = work
    BY <1>4 DEF RegisterFails, UpgradeDone, BeginBatch, Choose, Answer,
       SaveNothing, SaveOntoItself, CloseAsserts, StopProfiling
  <2> QED
    BY <1>2, <2>1
<1>5. CASE \E f \in Files : SaveFails(f) \/ SaveCopies(f)
  <2>1. work' = work
    BY <1>5 DEF SaveFails, SaveCopies
  <2> QED
    BY <1>2, <2>1
<1>6. CASE \E f \in Files : OpenTrace(f)
  BY <1>6 DEF OpenTrace, Paths
<1>7. CASE OpenNothing \/ Exit \/ RunUnityApp \/ \E t \in Temps : StartProfiling(t)
  BY <1>7 DEF OpenNothing, Exit, RunUnityApp, StartProfiling, Created
<1> QED
  BY <1>2, <1>3, <1>4, <1>5, <1>6, <1>7 DEF Next, Upgrades

-----------------------------------------------------------------------------
(* The steps keep the invariants.                                          *)

(* Every action keeps tables and recorded migrations together.             *)
LEMMA SchemaStep ==
    ASSUME StoreInv, Next
    PROVE  SchemaInv'
<1>1. step \in Nat /\ (step = 0 => Whole(work))
  BY DEF StoreInv, TypeOK, WindowOK, SchemaInv
<1>2. \A p \in Paths : disk[p] # Absent => Whole(disk[p])
  BY DEF StoreInv, SchemaInv
<1>3. ASSUME NEW p \in Paths, disk'[p] # Absent
      PROVE  Whole(disk'[p])
  <2>1. CASE disk'[p] \in {disk[p], Absent, Empty}
    BY <1>2, <1>3, <2>1, EmptyFacts
  <2>2. CASE disk'[p] = work' /\ \E m \in todo : UpgradeRecord(m)
    BY <2>2, RecordEffect
  <2>3. CASE disk'[p] = work /\ CommitBatch
    BY <1>1, <2>3, BatchEffect
  <2>4. CASE disk'[p] = work /\ \E f \in Files : SaveCopies(f)
    <3>1. step = 0
      BY <2>4 DEF SaveCopies, StoreInv, SchemaInv, TypeOK, WindowOK
    <3> QED
      BY <1>1, <2>4, <3>1
  <2> QED
    BY <2>1, <2>2, <2>3, <2>4, DiskOrigin
<1>4. ASSUME NEW m \in todo, UpgradeQuery(m)
      PROVE  /\ step' > 0 /\ inTx' /\ ui' = "upgrade"
             /\ \E k \in todo' : /\ \A i \in todo' : k <= i
                                 /\ step' <= Migrations[k]
                                 /\ work'.schema = TablesOf(work'.done) \cup Begins(k, step')
  <2>1. m \in DOMAIN Migrations /\ step < Migrations[m] /\ IsNext(m)
    BY <1>4 DEF StoreInv, TypeOK, WindowOK, UpgradeQuery, StepsLeft
  <2>2. step' = step + 1 /\ todo' = todo /\ ui' = "upgrade"
    BY <1>4 DEF UpgradeQuery, Upgrading
  <2>3. work.schema = TablesOf(work.done) \cup Begins(m, step)
    <3>1. CASE step = 0
      BY <1>1, <3>1, BeginsNone DEF Whole
    <3>2. CASE step > 0
      <4>1. PICK k \in todo : /\ IsNext(k)
                              /\ work.schema = TablesOf(work.done) \cup Begins(k, step)
        BY <3>2 DEF StoreInv, SchemaInv
      <4>2. k <= m /\ m <= k
        BY <2>1, <4>1 DEF IsNext
      <4>3. k \in Nat /\ m \in Nat
        BY <2>1, MigrationType DEF StoreInv, TypeOK, WindowOK
      <4>4. k = m
        BY <4>2, <4>3
      <4> QED
        BY <4>1, <4>4
    <3> QED
      BY <1>1, <3>1, <3>2
  <2>4. /\ inTx' = TRUE /\ work'.done = work.done
        /\ work'.schema = work.schema \cup {<<m, step + 1>>}
    BY <1>4, QueryEffect
  <2>5. work'.schema = TablesOf(work'.done) \cup Begins(m, step')
    BY <1>1, <2>2, <2>3, <2>4, BeginsAdd
  <2>6. step' > 0 /\ step' <= Migrations[m]
    BY <1>1, <2>1, <2>2, MigrationType
  <2>7. \A i \in todo' : m <= i
    BY <2>1, <2>2 DEF IsNext
  <2> QED
    BY <2>2, <2>4, <2>5, <2>6, <2>7
<1>5. ASSUME ~(\E m \in todo : UpgradeQuery(m))
      PROVE  step' = 0 /\ Whole(work')
  <2>1. CASE \E m \in todo : UpgradeRecord(m)
    BY <2>1, RecordEffect DEF UpgradeRecord
  <2>2. CASE \E m \in todo : UpgradeFails(m)
    <3>1. file # NoFile /\ work' = disk[file] /\ step' = 0
      BY <2>2 DEF UpgradeFails, Rollback, Upgrading, StoreInv, PlaceInv
    <3> QED
      BY <3>1, OpenFile
  <2>3. CASE ~Upgrades
    <3>1. step = 0 /\ step' = 0
      BY <2>3, StepZero
    <3>2. CASE \E n \in Names : InsertRow(n)
      <4>1. work'.schema = work.schema /\ work'.done = work.done
        BY <3>2, InsertEffect
      <4> QED
        BY <1>1, <3>1, <4>1 DEF Whole
    <3>3. CASE \/ work' = work \/ work' = Empty
               \/ \E p \in Paths : disk[p] # Absent /\ work' = disk[p]
      BY <1>1, <1>2, <3>1, <3>3, EmptyFacts
    <3> QED
      BY <2>3, <3>1, <3>2, <3>3, WorkOrigin DEF Upgrades
  <2> QED
    BY <1>5, <2>1, <2>2, <2>3 DEF Upgrades
<1>6. CASE \E m \in todo : UpgradeQuery(m)
  BY <1>3, <1>4, <1>6 DEF SchemaInv, IsNext, Whole
<1>7. CASE ~(\E m \in todo : UpgradeQuery(m))
  <2>1. step' = 0 /\ Whole(work')
    BY <1>5, <1>7
  <2> QED
    BY <1>3, <2>1 DEF SchemaInv, Whole
<1> QED
  BY <1>6, <1>7

(* Closing forgets the private database only.                              *)
LEMMA ClosedFacts ==
    ASSUME StoreInv, NEW p \in Paths
    PROVE  Closed(disk)[p] = IF p = Anon THEN Absent ELSE disk[p]
BY DEF Closed, StoreInv, TypeOK, StoreOK

(* The names are those of different things.                                *)
LEMMA PathFacts ==
    /\ \A f \in Files : f \in Paths /\ f \notin Unsaved /\ f # NoFile /\ f # Anon
    /\ \A t \in Unsaved : t \in Paths /\ t \notin Files /\ t # NoFile
    /\ \A t \in Temps : t \in Unsaved /\ t # Anon
    /\ Anon \in Unsaved /\ NoFile \notin Paths
BY TraceStoreAssumption DEF Paths, Unsaved

(* Copying a trace under another name leaves the open file alone, or opens *)
(* the copy.                                                               *)
LEMMA CopyEffect ==
    ASSUME StoreInv, NEW f \in Files, SaveCopies(f)
    PROVE  /\ work' = work /\ disk'[f] = work
           /\ \A p \in Paths \ {f, Anon} : disk'[p] = disk[p]
           /\ \/ thread # "none" /\ file' = file /\ disk'[file] = disk[file] /\ ui' # "upgrade"
              \/ thread = "none" /\ file' = f /\ ui' = "upgrade" /\ job' = "save"
<1>1. DOMAIN disk = Paths /\ file \in Paths
  BY DEF StoreInv, TypeOK, StoreOK, SaveCopies
<1>2. thread # "none" => f # file
  BY DEF SaveCopies
<1> QED
  BY <1>1, <1>2, PathFacts DEF SaveCopies, Closed, AfterSave

(* A new database is open, or none.                                        *)
LEMMA NewEffect ==
    ASSUME StoreInv, RunUnityApp \/ \E t \in Temps : StartProfiling(t)
    PROVE  /\ work' = Empty /\ name' \in Unsaved /\ thread = "none" /\ thread' = "none"
           /\ \A f \in Files : f # name => disk'[f] = disk[f]
           /\ \/ /\ file' \in Unsaved /\ disk'[file'] = Empty
                 /\ ui' = "upgrade" /\ job' = op /\ op \in {"start", "run"}
              \/ file' = NoFile /\ ui' = "idle"
<1>1. DOMAIN disk = Paths
  BY DEF StoreInv, TypeOK, StoreOK
<1>2. CASE RunUnityApp
  BY <1>1, <1>2, PathFacts DEF RunUnityApp, Created, Closed, Going
<1>3. CASE \E t \in Temps : StartProfiling(t)
  BY <1>1, <1>3, PathFacts DEF StartProfiling, Created, Closed, Going
<1> QED
  BY <1>2, <1>3

(* Every action keeps the place and the open file together.                *)
LEMMA PlaceStep ==
    ASSUME StoreInv, Next
    PROVE  PlaceInv'
<1> USE DEF window, store, AfterJob, AfterSave
<1>1. PlaceInv /\ DOMAIN disk = Paths /\ work \in Contents /\ work # Absent
  BY AbsentAssumption DEF StoreInv, TypeOK, StoreOK
<1>2. CASE Upgrades
  <2>1. /\ UNCHANGED <<file, thread, job, name>> /\ ui = "upgrade"
        /\ ui' \in {"upgrade", "go", "idle"}
    BY <1>2 DEF Upgrades, UpgradeQuery, UpgradeRecord, UpgradeFails, Upgrading
  <2>2. disk'[file] # Absent
    <3>1. file # NoFile /\ file \in Paths /\ disk[file] # Absent
      BY <1>1, <2>1, OpenFile DEF PlaceInv
    <3>2. CASE \E m \in todo : UpgradeQuery(m) \/ UpgradeFails(m)
      BY <3>1, <3>2, QueryEffect DEF UpgradeFails, Rollback
    <3>3. CASE \E m \in todo : UpgradeRecord(m)
      BY <1>1, <3>1, <3>3, RecordEffect, AbsentAssumption
    <3> QED
      BY <1>2, <3>2, <3>3 DEF Upgrades
  <2> QED
    BY <1>1, <2>1, <2>2 DEF PlaceInv
<1>3. CASE RegisterFails
  BY <1>1, <1>3 DEF PlaceInv, RegisterFails
<1>4. CASE UpgradeDone
  BY <1>1, <1>4 DEF PlaceInv, UpgradeDone, Upgrading
<1>5. CASE BeginBatch \/ StopProfiling
  BY <1>1, <1>5 DEF PlaceInv, BeginBatch, StopProfiling
<1>6. CASE \E n \in Names : InsertRow(n)
  <2>1. disk' = disk /\ UNCHANGED <<file, thread, ui, job, name>>
    BY <1>6, InsertEffect DEF InsertRow
  <2> QED
    BY <1>1, <2>1 DEF PlaceInv
<1>7. CASE CommitBatch
  <2>1. UNCHANGED <<file, ui, job, name>> /\ thread # "none"
    BY <1>7 DEF CommitBatch
  <2>2. file \in Paths /\ file \in Unsaved /\ ui # "upgrade"
    BY <1>7, BatchEffect, PathFacts
  <2>3. disk'[file] # Absent
    BY <1>1, <1>7, <2>2, BatchEffect, PathFacts DEF PlaceInv
  <2> QED
    BY <1>1, <2>1, <2>2, <2>3 DEF PlaceInv
<1>8. CASE \/ \E o \in {"open", "start", "run", "save", "exit"} : Choose(o)
           \/ \E a \in {"save", "go", "idle"} : Answer(a)
           \/ SaveNothing \/ SaveOntoItself \/ CloseAsserts
  <2>1. UNCHANGED <<disk, file, thread, job, name>>
    BY <1>8 DEF Choose, Answer, SaveNothing, SaveOntoItself, CloseAsserts
  <2>2. ui' # "upgrade"
    BY <1>8 DEF Choose, Answer, SaveNothing, SaveOntoItself, CloseAsserts, Going
  <2> QED
    BY <1>1, <2>1, <2>2 DEF PlaceInv
<1>9. CASE \E f \in Files : SaveFails(f)
  BY <1>1, <1>9 DEF PlaceInv, SaveFails
<1>10. CASE \E f \in Files : SaveCopies(f)
  <2>1. PICK f \in Files : SaveCopies(f)
    BY <1>10
  <2>2. UNCHANGED <<thread, name>>
    BY <2>1 DEF SaveCopies
  <2> QED
    BY <1>1, <2>1, <2>2, CopyEffect, PathFacts DEF PlaceInv
<1>11. CASE \E f \in Files : OpenTrace(f)
  BY <1>1, <1>11, PathFacts DEF PlaceInv, OpenTrace, Closed
<1>12. CASE OpenNothing \/ Exit
  BY <1>1, <1>12 DEF PlaceInv, OpenNothing, Exit, Going
<1>13. CASE RunUnityApp \/ \E t \in Temps : StartProfiling(t)
  BY <1>13, NewEffect, EmptyFacts, PathFacts DEF PlaceInv
<1> QED
  BY <1>2, <1>3, <1>4, <1>5, <1>6, <1>7, <1>8, <1>9, <1>10, <1>11, <1>12, <1>13
     DEF Next, Upgrades

(* Every action keeps the traces the user has, but the one saved last.     *)
LEMMA KeptStep ==
    ASSUME StoreInv, Next
    PROVE  KeptInv'
<1> USE DEF window, store, history
<1>1. /\ KeptInv /\ PlaceInv /\ DOMAIN disk = Paths
      /\ work \in Contents /\ work # Absent /\ DOMAIN kept = Files
  BY AbsentAssumption DEF StoreInv, TypeOK, StoreOK, HistoryOK
<1>2. CASE Upgrades
  <2>1. UNCHANGED <<file, name, temp, kept, last, exposed>> /\ file # NoFile
    BY <1>1, <1>2 DEF Upgrades, UpgradeQuery, UpgradeRecord, UpgradeFails, Upgrading, PlaceInv
  <2>2. /\ file \in Paths /\ disk[file] # Absent
        /\ file \in Files => work.rows = disk[file].rows
    BY <1>1, <2>1, OpenFile DEF KeptInv
  <2>3. /\ \A p \in Paths : p # file => disk'[p] = disk[p]
        /\ file \in Files => /\ disk'[file] # Absent /\ disk'[file].rows = disk[file].rows
                             /\ work'.rows = disk[file].rows
    <3>1. CASE \E m \in todo : UpgradeQuery(m)
      BY <2>2, <3>1, QueryEffect
    <3>2. CASE \E m \in todo : UpgradeFails(m)
      BY <2>2, <3>2 DEF UpgradeFails, Rollback
    <3>3. CASE \E m \in todo : UpgradeRecord(m)
      BY <1>1, <2>2, <3>3, RecordEffect, AbsentAssumption
    <3> QED
      BY <1>2, <3>1, <3>2, <3>3 DEF Upgrades
  <2>4. \A f \in Files : RowsIn(disk'[f]) = RowsIn(disk[f])
    BY <2>2, <2>3, PathFacts DEF RowsIn
  <2> QED
    BY <1>1, <2>1, <2>3, <2>4 DEF KeptInv, KeptUnlessStarted
<1>3. CASE UpgradeDone
  <2>1. CASE job = "save"
    <3>1. file \in Files /\ disk[file] # Absent /\ work.rows = disk[file].rows
      BY <1>1, <1>3, <2>1, PathFacts DEF PlaceInv, KeptInv, UpgradeDone, Upgrading
    <3>2. /\ name' = file /\ last' = file /\ ~temp' /\ kept' = [kept EXCEPT ![file] = work.rows]
          /\ UNCHANGED <<disk, file, work, exposed>>
      BY <1>3, <2>1 DEF UpgradeDone
    <3> QED
      BY <1>1, <3>1, <3>2 DEF KeptInv, KeptUnlessStarted, RowsIn
  <2>2. CASE job = "open"
    <3>1. /\ ~temp' /\ UNCHANGED <<disk, file, work, exposed, name, last, kept>>
      BY <1>3, <2>2 DEF UpgradeDone
    <3> QED
      BY <1>1, <3>1 DEF KeptInv, KeptUnlessStarted
  <2>3. CASE job \in {"start", "run"}
    <3>1. UNCHANGED <<disk, file, work, exposed, name, last, kept>>
      BY <1>3, <2>3 DEF UpgradeDone
    <3>2. name \notin Files
      BY <1>1, <1>3, <2>3 DEF PlaceInv, UpgradeDone, Upgrading
    <3> QED
      BY <1>1, <3>1, <3>2 DEF KeptInv, KeptUnlessStarted
  <2> QED
    BY <2>1, <2>2, <2>3 DEF StoreInv, TypeOK, WindowOK
<1>4. CASE \/ RegisterFails \/ BeginBatch \/ StopProfiling
           \/ \E o \in {"open", "start", "run", "save", "exit"} : Choose(o)
           \/ \E a \in {"save", "go", "idle"} : Answer(a)
           \/ SaveNothing \/ SaveOntoItself \/ CloseAsserts
  <2>1. UNCHANGED <<disk, file, work, exposed, name, last, kept, temp>>
    BY <1>4 DEF RegisterFails, BeginBatch, StopProfiling, Choose, Answer, SaveNothing,
       SaveOntoItself, CloseAsserts
  <2> QED
    BY <1>1, <2>1 DEF KeptInv, KeptUnlessStarted
<1>5. CASE \E n \in Names : InsertRow(n)
  <2>1. disk' = disk /\ UNCHANGED <<file, exposed, name, last, kept, temp>> /\ thread # "none"
    BY <1>5, InsertEffect DEF InsertRow
  <2>2. file \notin Files
    BY <1>1, <2>1, PathFacts DEF PlaceInv
  <2> QED
    BY <1>1, <2>1, <2>2 DEF KeptInv, KeptUnlessStarted
<1>6. CASE CommitBatch
  <2>1. UNCHANGED <<file, exposed, name, last, kept, temp>> /\ file \notin Files
    BY <1>6, BatchEffect, PathFacts DEF CommitBatch
  <2>2. \A f \in Files : disk'[f] = disk[f]
    BY <1>1, <1>6, <2>1, BatchEffect, PathFacts
  <2> QED
    BY <1>1, <2>1, <2>2 DEF KeptInv, KeptUnlessStarted
<1>7. CASE \E f \in Files : SaveFails(f)
  <2>1. PICK f \in Files : SaveFails(f)
    BY <1>7
  <2>2. /\ disk' = [disk EXCEPT ![f] = Absent] /\ kept' = [kept EXCEPT ![f] = Absent] /\ f # file
        /\ UNCHANGED <<file, work, exposed, name, last, temp>>
    BY <2>1 DEF SaveFails
  <2>3. kept'[f] = Absent
    BY <1>1, <2>2
  <2> QED
    BY <1>1, <2>2, <2>3, PathFacts DEF KeptInv, KeptUnlessStarted
<1>8. CASE \E f \in Files : SaveCopies(f)
  <2>1. PICK f \in Files : SaveCopies(f)
    BY <1>8
  <2>2. kept' = [kept EXCEPT ![f] = Absent] /\ UNCHANGED <<exposed, name, last, temp, thread>>
    BY <2>1 DEF SaveCopies
  <2>3. kept'[f] = Absent /\ \A g \in Files : g # f => kept'[g] = kept[g] /\ disk'[g] = disk[g]
    BY <1>1, <2>1, <2>2, CopyEffect, PathFacts
  <2>4. KeptUnlessStarted'
    BY <1>1, <2>2, <2>3 DEF KeptInv, KeptUnlessStarted
  <2>5. file' \in Files => work'.rows = disk'[file'].rows
    <3>1. CASE thread # "none" /\ file' = file
      BY <1>1, <3>1, PathFacts DEF PlaceInv
    <3>2. CASE file' = f
      BY <2>1, <3>2, CopyEffect
    <3> QED
      BY <2>1, <3>1, <3>2, CopyEffect
  <2> QED
    BY <1>1, <2>2, <2>4, <2>5 DEF KeptInv
<1>9. CASE \E f \in Files : OpenTrace(f)
  <2>1. /\ disk' = Closed(disk) /\ work' = disk[file'] /\ file' \in Files
        /\ UNCHANGED <<exposed, name, last, temp, kept>>
    BY <1>9 DEF OpenTrace, OpenedName
  <2>2. \A f \in Files : disk'[f] = disk[f]
    BY <2>1, ClosedFacts, PathFacts
  <2> QED
    BY <1>1, <2>1, <2>2 DEF KeptInv, KeptUnlessStarted
<1>10. CASE OpenNothing
  <2>1. /\ disk' = Closed(disk) /\ file' = NoFile
        /\ UNCHANGED <<exposed, name, last, temp, kept>>
    BY <1>10 DEF OpenNothing
  <2>2. \A f \in Files : disk'[f] = disk[f]
    BY <2>1, ClosedFacts, PathFacts
  <2> QED
    BY <1>1, <2>1, <2>2, PathFacts DEF KeptInv, KeptUnlessStarted
<1>11. CASE Exit
  <2>1. file' = NoFile /\ UNCHANGED <<exposed, name, last, temp, kept>>
    BY <1>11 DEF Exit
  <2>2. \A f \in Files : disk'[f] = disk[f]
    <3>1. CASE temp /\ name \in Paths
      <4>1. name \notin Files /\ disk' = [Closed(disk) EXCEPT ![name] = Absent]
        BY <1>1, <1>11, <3>1 DEF KeptInv, Exit
      <4>2. \A f \in Files : disk'[f] = Closed(disk)[f]
        BY <1>1, <4>1, PathFacts DEF Closed
      <4> QED
        BY <4>2, ClosedFacts, PathFacts
    <3>2. CASE ~(temp /\ name \in Paths)
      BY <1>11, <3>2, ClosedFacts, PathFacts DEF Exit
    <3> QED
      BY <3>1, <3>2
  <2> QED
    BY <1>1, <2>1, <2>2, PathFacts DEF KeptInv, KeptUnlessStarted
<1>12. CASE RunUnityApp
  <2>1. UNCHANGED <<exposed, last, temp, kept>> /\ name' \notin Files /\ file' \notin Files
    BY <1>12, NewEffect, PathFacts DEF RunUnityApp
  <2>2. \A f \in Files : disk'[f] = disk[f]
    BY <1>1, <1>12, PathFacts DEF RunUnityApp, Created, Closed
  <2> QED
    BY <1>1, <2>1, <2>2 DEF KeptInv, KeptUnlessStarted
<1>13. CASE \E t \in Temps : StartProfiling(t)
  <2>1. /\ UNCHANGED <<last, temp, kept>> /\ exposed' = exposed \cup {last}
        /\ name' \notin Files /\ file' \notin Files
    BY <1>13, NewEffect, PathFacts DEF StartProfiling
  <2>2. \A f \in Files \ exposed' : disk'[f] = disk[f]
    BY <1>1, <1>13, <2>1, NewEffect DEF KeptInv
  <2> QED
    BY <1>1, <2>1, <2>2 DEF KeptInv, KeptUnlessStarted
<1> QED
  BY <1>2, <1>3, <1>4, <1>5, <1>6, <1>7, <1>8, <1>9, <1>10, <1>11, <1>12, <1>13
     DEF Next, Upgrades

(* Every action keeps unsaved rows marked, and asks before going on.       *)
LEMMA AskStep ==
    ASSUME StoreInv, Next
    PROVE  AskInv'
<1> USE DEF window, store, history
<1>1. /\ AskInv /\ PlaceInv /\ DOMAIN disk = Paths /\ WindowOK
  BY DEF StoreInv, TypeOK, StoreOK
<1>2. CASE Upgrades
  <2>1. /\ UNCHANGED <<file, temp, thread, job, op, asked>> /\ ui = "upgrade" /\ file # NoFile
        /\ ui' = "upgrade" \/ ui' = AfterJob
    BY <1>1, <1>2 DEF Upgrades, UpgradeQuery, UpgradeRecord, UpgradeFails, Upgrading, PlaceInv
  <2>2. file \in Unsaved /\ ~temp => work'.rows = {} /\ disk'[file].rows = {}
    <3>1. CASE \E m \in todo : UpgradeQuery(m)
      BY <1>1, <3>1, QueryEffect DEF AskInv
    <3>2. CASE \E m \in todo : UpgradeFails(m)
      BY <1>1, <3>2 DEF AskInv, UpgradeFails, Rollback
    <3>3. CASE \E m \in todo : UpgradeRecord(m)
      <4>1. file \in Paths
        BY <2>1, OpenFile
      <4> QED
        BY <1>1, <3>3, <4>1, RecordEffect DEF AskInv
    <3> QED
      BY <1>2, <3>1, <3>2, <3>3 DEF Upgrades
  <2> QED
    BY <1>1, <2>1, <2>2 DEF AskInv, AfterJob, AfterSave
<1>3. CASE UpgradeDone
  <2>1. /\ ui' = AfterJob /\ ui = "upgrade" /\ UNCHANGED <<disk, work, file, op, job, asked>>
        /\ \/ job \in {"save", "open"} /\ thread' = thread
           \/ job \in {"start", "run"} /\ thread' = "idle" /\ temp'
    BY <1>3 DEF UpgradeDone, StartedTemp, Upgrading
  <2>2. job \in {"save", "open"} => file \notin Unsaved /\ thread' = "none"
    BY <1>1, <2>1, PathFacts DEF PlaceInv
  <2> QED
    BY <1>1, <2>1, <2>2 DEF AskInv, AfterJob, AfterSave
<1>4. CASE \/ RegisterFails \/ BeginBatch \/ StopProfiling
           \/ \E o \in {"open", "start", "run", "save", "exit"} : Choose(o)
           \/ \E a \in {"save", "go", "idle"} : Answer(a)
           \/ SaveNothing \/ SaveOntoItself \/ CloseAsserts
  <2>1. UNCHANGED <<disk, work, file, temp>>
    BY <1>4 DEF RegisterFails, BeginBatch, StopProfiling, Choose, Answer, SaveNothing,
       SaveOntoItself, CloseAsserts
  <2>2. CASE RegisterFails \/ BeginBatch \/ StopProfiling
    BY <1>1, <2>1, <2>2 DEF AskInv, RegisterFails, BeginBatch, StopProfiling, AfterJob, AfterSave,
       Upgrading
  <2>3. CASE \E o \in {"open", "start", "run", "save", "exit"} : Choose(o)
    BY <1>1, <2>1, <2>3 DEF AskInv, Choose
  <2>4. CASE \/ \E a \in {"save", "go", "idle"} : Answer(a)
             \/ SaveNothing \/ SaveOntoItself \/ CloseAsserts
    BY <1>1, <2>1, <2>4 DEF AskInv, Answer, SaveNothing, SaveOntoItself, CloseAsserts, AfterSave
  <2> QED
    BY <1>4, <2>2, <2>3, <2>4
<1>5. CASE CommitBatch \/ \E n \in Names : InsertRow(n)
  <2>1. temp /\ UNCHANGED <<ui, op, job, asked, file, temp>>
    BY <1>1, <1>5 DEF AskInv, CommitBatch, InsertRow
  <2> QED
    BY <1>1, <2>1 DEF AskInv
<1>6. CASE \E f \in Files : SaveFails(f)
  BY <1>1, <1>6 DEF AskInv, SaveFails, AfterSave
<1>7. CASE \E f \in Files : SaveCopies(f)
  <2>1. PICK f \in Files : SaveCopies(f)
    BY <1>7
  <2>2. /\ UNCHANGED <<op, asked, thread, temp>> /\ ui = "save"
        /\ ui' = AfterSave \/ (ui' = "upgrade" /\ job' = "save")
    BY <2>1 DEF SaveCopies
  <2>3. file' \in Unsaved => temp
    BY <1>1, <2>1, CopyEffect, PathFacts DEF AskInv
  <2> QED
    BY <1>1, <2>2, <2>3 DEF AskInv, AfterSave
<1>8. CASE \E f \in Files : OpenTrace(f)
  BY <1>1, <1>8, PathFacts DEF AskInv, OpenTrace
<1>9. CASE OpenNothing \/ Exit
  BY <1>1, <1>9, PathFacts DEF AskInv, OpenNothing, Exit
<1>10. CASE RunUnityApp \/ \E t \in Temps : StartProfiling(t)
  <2>1. /\ file' \in Unsaved => disk'[file'] = Empty
        /\ work' = Empty /\ thread' = "none" /\ ui' \in {"upgrade", "idle"}
        /\ ui' = "upgrade" => job' # "save"
    BY <1>10, NewEffect, PathFacts
  <2> QED
    BY <2>1, EmptyFacts DEF AskInv
<1> QED
  BY <1>2, <1>3, <1>4, <1>5, <1>6, <1>7, <1>8, <1>9, <1>10 DEF Next, Upgrades

(* A row more is a part more of its batch.                                 *)
LEMMA PartsAdd ==
    ASSUME NEW rows, NEW row, NEW b, row.batch = b
    PROVE  PartsOf(rows \cup {row}, b) = PartsOf(rows, b) \cup {row.part}
BY DEF PartsOf

(* The other batches have the parts they had.                              *)
LEMMA PartsSame ==
    ASSUME NEW rows, NEW row, NEW b, row.batch # b
    PROVE  PartsOf(rows \cup {row}, b) = PartsOf(rows, b)
BY DEF PartsOf

(* No rows are any number of batches.                                      *)
LEMMA NoRows ==
    ASSUME NEW f, NEW t
    PROVE  Past({}, f) /\ Spanned({}, t) /\ Filled({}, f, t)
BY DEF Past, Spanned, Filled

(* What reaches up to a batch has no gap.                                  *)
LEMMA FilledSpanned ==
    ASSUME NEW rows, NEW f \in Nat, NEW t, Past(rows, f), Filled(rows, f, t)
    PROVE  Spanned(rows, t)
<1> SUFFICES ASSUME NEW q \in rows, NEW r \in rows, NEW b \in q.batch..r.batch
             PROVE  b \in t \/ PartsOf(rows, b) = Parts
  BY DEF Spanned
<1>1. b \in q.batch..(f - 1)
  BY DEF Past
<1> QED
  BY <1>1 DEF Filled

(* More batches are before a later one, and more may be torn.              *)
LEMMA SpannedLater ==
    ASSUME NEW rows, NEW f \in Nat, NEW t, NEW u, t \subseteq u,
           Past(rows, f), Spanned(rows, t)
    PROVE  Past(rows, f + 1) /\ Spanned(rows, u)
BY DEF Past, Spanned

(* A row of the current batch leaves the ones before it as they are.       *)
LEMMA RowAdded ==
    ASSUME NEW rows, NEW f \in Nat, NEW t, NEW row, row.batch = f,
           Past(rows, f + 1), Filled(rows, f, t)
    PROVE  Past(rows \cup {row}, f + 1) /\ Filled(rows \cup {row}, f, t)
<1>1. Past(rows \cup {row}, f + 1)
  BY DEF Past
<1>2. SUFFICES ASSUME NEW q \in rows \cup {row}, NEW b \in q.batch..(f - 1)
               PROVE  b \in t \/ PartsOf(rows \cup {row}, b) = Parts
  BY <1>1 DEF Filled
<1>3. b # f /\ q \in rows
  BY DEF Past
<1>4. PartsOf(rows \cup {row}, b) = PartsOf(rows, b)
  BY <1>3, PartsSame
<1> QED
  BY <1>3, <1>4 DEF Filled

(* A batch that has all its parts is one more; if rows are given up, their *)
(* batches are torn.                                                       *)
LEMMA BatchEnded ==
    ASSUME NEW rows, NEW left, left \subseteq rows, NEW f \in Nat, NEW t,
           Past(rows, f + 1), Filled(rows, f, t), f \in t \/ PartsOf(rows, f) = Parts
    PROVE  Filled(left, f + 1, t \cup Lost(rows, left))
<1> SUFFICES ASSUME NEW q \in left, NEW b \in q.batch..((f + 1) - 1),
                    b \notin t \cup Lost(rows, left)
             PROVE  PartsOf(left, b) = Parts
  BY DEF Filled
<1>1. q.batch \in Nat /\ q \in rows
  BY DEF Past
<1>2. b = f \/ b \in q.batch..(f - 1)
  BY <1>1
<1>3. PartsOf(rows, b) = Parts
  BY <1>1, <1>2 DEF Filled
<1>4. {s \in rows : s.batch = b} = {s \in left : s.batch = b}
  BY DEF Lost
<1> QED
  BY <1>3, <1>4 DEF PartsOf

(* An insert keeps the batches whole.                                      *)
LEMMA InsertWhole ==
    ASSUME StoreInv, PlaceInv', NEW n \in Names, InsertRow(n)
    PROVE  BatchInv'
<1>1. /\ BatchInv /\ batch \in Nat /\ part \in Nat
  BY PartsType DEF StoreInv, TypeOK, SessionOK
<1>2. /\ disk' = disk /\ thread = "batch" /\ part' = part + 1
      /\ UNCHANGED <<thread, batch, inTx, ui, job, file>>
  BY InsertEffect DEF InsertRow, window
<1>3. /\ inTx /\ Past(work.rows, batch + 1) /\ Filled(work.rows, batch, torn)
      /\ batch \in torn \/ PartsOf(work.rows, batch) = 1..part
      /\ disk[file].rows \subseteq work.rows
      /\ \A p \in Paths : disk[p] # Absent =>
           Past(disk[p].rows, batch) /\ Spanned(disk[p].rows, torn)
      /\ ui # "upgrade"
  BY <1>1, <1>2 DEF BatchInv, StoreInv, PlaceInv
<1>4. CASE torn' = torn \cup {batch} /\ work'.rows = work.rows
  <2>1. Filled(work.rows, batch, torn')
    BY <1>3, <1>4 DEF Filled
  <2>2. \A p \in Paths : disk[p] # Absent => Spanned(disk[p].rows, torn')
    BY <1>3, <1>4 DEF Spanned
  <2> QED
    BY <1>2, <1>3, <1>4, <2>1, <2>2 DEF BatchInv
<1>5. CASE /\ torn' = torn
           /\ \E id \in Nat : work'.rows = work.rows \cup
                 {[batch |-> batch, part |-> part + 1, id |-> id, name |-> n]}
  <2>1. PICK id \in Nat : work'.rows = work.rows \cup
                 {[batch |-> batch, part |-> part + 1, id |-> id, name |-> n]}
    BY <1>5
  <2> DEFINE row == [batch |-> batch, part |-> part + 1, id |-> id, name |-> n]
  <2>2. work'.rows = work.rows \cup {row} /\ row.batch = batch /\ row.part = part + 1
    BY <2>1
  <2> HIDE DEF row
  <2>3. Past(work'.rows, batch + 1) /\ Filled(work'.rows, batch, torn)
    BY <1>1, <1>3, <2>2, RowAdded
  <2>4. batch \in torn \/ PartsOf(work'.rows, batch) = 1..(part + 1)
    <3>1. PartsOf(work'.rows, batch) = PartsOf(work.rows, batch) \cup {part + 1}
      <4>1. PartsOf(work.rows \cup {row}, batch) = PartsOf(work.rows, batch) \cup {row.part}
        <5>1. row.batch = batch
          BY <2>2
        <5> QED
          BY <5>1, PartsAdd
      <4> QED
        BY <2>2, <4>1
    <3>2. 1..(part + 1) = 1..part \cup {part + 1}
      BY <1>1
    <3> QED
      BY <1>3, <3>1, <3>2
  <2>5. disk[file].rows \subseteq work'.rows
    BY <1>3, <2>2
  <2> QED
    BY <1>2, <1>3, <1>5, <2>3, <2>4, <2>5 DEF BatchInv
<1> QED
  BY <1>4, <1>5, InsertEffect

(* The end of a batch keeps the batches whole, whether its commit succeeds *)
(* or not.                                                                 *)
LEMMA CommitWhole ==
    ASSUME StoreInv, CommitBatch
    PROVE  BatchInv'
<1>1. /\ BatchInv /\ batch \in Nat /\ DOMAIN disk = Paths
  BY DEF StoreInv, TypeOK, StoreOK, SessionOK
<1>2. /\ thread = "batch" /\ thread' = "idle" /\ batch' = batch + 1
      /\ torn' = torn \cup Lost(work.rows, work'.rows)
      /\ part = Cardinality(Parts) /\ UNCHANGED <<ui, job, file>>
  BY DEF CommitBatch, window
<1>3. /\ Past(work.rows, batch + 1) /\ Filled(work.rows, batch, torn)
      /\ batch \in torn \/ PartsOf(work.rows, batch) = Parts
      /\ disk[file].rows \subseteq work.rows
  BY <1>1, <1>2, PartsType DEF BatchInv
<1>4. file \in Paths /\ disk[file] # Absent /\ ui # "upgrade"
  <2>1. file # NoFile
    BY BatchEffect, PathFacts
  <2> QED
    BY <2>1, BatchEffect, OpenFile
<1>5. /\ \/ disk' = [disk EXCEPT ![file] = work] /\ work' = work
         \/ disk' = disk /\ work' = work
         \/ disk' = disk /\ work' = disk[file]
  BY BatchEffect
<1>6. work'.rows \subseteq work.rows /\ disk'[file].rows \subseteq work'.rows
  BY <1>1, <1>3, <1>4, <1>5
<1>7. Past(work'.rows, batch + 1)
  BY <1>3, <1>6 DEF Past
<1>8. Filled(work'.rows, batch + 1, torn')
  BY <1>1, <1>2, <1>3, <1>6, BatchEnded
<1>9. Spanned(work'.rows, torn')
  <2>1. batch + 1 \in Nat
    BY <1>1
  <2> QED
    BY <1>7, <1>8, <2>1, FilledSpanned
<1>10. ASSUME NEW p \in Paths, disk'[p] # Absent
       PROVE  Past(disk'[p].rows, batch + 1) /\ Spanned(disk'[p].rows, torn')
  <2>1. CASE disk'[p] = disk[p]
    <3>1. Past(disk[p].rows, batch) /\ Spanned(disk[p].rows, torn)
      BY <1>1, <1>10, <2>1 DEF BatchInv
    <3>2. torn \subseteq torn'
      BY <1>2
    <3>3. Past(disk[p].rows, batch + 1) /\ Spanned(disk[p].rows, torn')
      BY <1>1, <3>1, <3>2, SpannedLater
    <3> QED
      BY <2>1, <3>3
  <2>2. CASE disk'[p] = work'
    BY <1>7, <1>9, <2>2
  <2> QED
    BY <1>1, <1>4, <1>5, <2>1, <2>2
<1> QED
  BY <1>2, <1>4, <1>6, <1>7, <1>8, <1>10 DEF BatchInv

(* A session, while it is made, has no rows.                               *)
LEMMA NewStep ==
    ASSUME StoreInv, Next, ui' = "upgrade", job' \in {"start", "run"}
    PROVE  work'.rows = {} /\ disk'[file'].rows = {}
<1> USE DEF window, store
<1>1. BatchInv /\ DOMAIN disk = Paths
  BY DEF StoreInv, TypeOK, StoreOK
<1>2. CASE Upgrades
  <2>1. UNCHANGED <<file, job>> /\ ui = "upgrade" /\ file # NoFile
    BY <1>2 DEF Upgrades, UpgradeQuery, UpgradeRecord, UpgradeFails, Upgrading, StoreInv, PlaceInv
  <2>2. work.rows = {} /\ disk[file].rows = {} /\ file \in Paths
    BY <1>1, <2>1, OpenFile DEF BatchInv
  <2>3. CASE \E m \in todo : UpgradeQuery(m)
    BY <2>1, <2>2, <2>3, QueryEffect
  <2>4. CASE \E m \in todo : UpgradeRecord(m)
    BY <1>1, <2>1, <2>2, <2>4, RecordEffect
  <2>5. CASE \E m \in todo : UpgradeFails(m)
    BY <2>1, <2>2, <2>5 DEF UpgradeFails, Rollback
  <2> QED
    BY <1>2, <2>3, <2>4, <2>5 DEF Upgrades
<1>3. CASE RunUnityApp \/ \E t \in Temps : StartProfiling(t)
  BY <1>3, NewEffect, EmptyFacts
<1>4. CASE \E f \in Files : SaveFails(f) \/ SaveCopies(f) \/ OpenTrace(f)
  <2>1. ui = "upgrade" \/ job' \in {"save", "open"} \/ ui' # "upgrade"
    BY <1>4 DEF SaveFails, SaveCopies, OpenTrace, AfterSave
  <2>2. ui # "upgrade"
    BY <1>4 DEF SaveFails, SaveCopies, OpenTrace, Going
  <2> QED
    BY <2>1, <2>2
<1>5. CASE RegisterFails \/ UpgradeDone
  BY <1>5 DEF RegisterFails, UpgradeDone, AfterJob, AfterSave
<1>6. CASE \/ \E o \in {"open", "start", "run", "save", "exit"} : Choose(o)
           \/ \E a \in {"save", "go", "idle"} : Answer(a)
           \/ SaveNothing \/ SaveOntoItself \/ CloseAsserts \/ OpenNothing
           \/ Exit \/ StopProfiling
  BY <1>6 DEF Choose, Answer, SaveNothing, SaveOntoItself, CloseAsserts, OpenNothing,
     Exit, StopProfiling, AfterSave, Going
<1>7. CASE BeginBatch \/ CommitBatch \/ \E n \in Names : InsertRow(n)
  <2>1. ui' = ui /\ thread # "none"
    BY <1>7 DEF BeginBatch, CommitBatch, InsertRow
  <2> QED
    BY <2>1 DEF StoreInv, PlaceInv
<1> QED
  BY <1>2, <1>3, <1>4, <1>5, <1>6, <1>7 DEF Next, Upgrades

(* The steps that neither insert nor begin, end or stop anything.          *)
Aside ==
    /\ ~\E n \in Names : InsertRow(n)
    /\ ~BeginBatch /\ ~CommitBatch /\ ~UpgradeDone /\ ~StopProfiling /\ ~Exit

(* They leave the message thread alone, and what it writes.                *)
LEMMA AsideThread ==
    ASSUME StoreInv, Next, Aside
    PROVE  /\ UNCHANGED <<thread, batch, torn, part>>
           /\ thread # "none" => UNCHANGED <<work, inTx, file>> /\ disk'[file] = disk[file]
<1> USE DEF window, store, history
<1>1. DOMAIN disk = Paths
  BY DEF StoreInv, TypeOK, StoreOK
<1>2. CASE Upgrades \/ RegisterFails
  BY <1>2 DEF Upgrades, UpgradeQuery, UpgradeRecord, UpgradeFails, RegisterFails,
     Upgrading, StoreInv, PlaceInv
<1>3. CASE \/ \E o \in {"open", "start", "run", "save", "exit"} : Choose(o)
           \/ \E a \in {"save", "go", "idle"} : Answer(a)
           \/ SaveNothing \/ SaveOntoItself \/ CloseAsserts \/ OpenNothing
  BY <1>3 DEF Choose, Answer, SaveNothing, SaveOntoItself, CloseAsserts, OpenNothing
<1>4. CASE \E f \in Files : SaveFails(f) \/ SaveCopies(f) \/ OpenTrace(f)
  <2>1. PICK f \in Files : SaveFails(f) \/ SaveCopies(f) \/ OpenTrace(f)
    BY <1>4
  <2>2. CASE SaveFails(f)
    BY <1>1, <2>2 DEF SaveFails
  <2>3. CASE SaveCopies(f)
    <3>1. file \in Paths
      BY <2>3, OpenFile DEF SaveCopies
    <3> QED
      BY <1>1, <2>3, <3>1 DEF SaveCopies
  <2>4. CASE OpenTrace(f)
    BY <2>4 DEF OpenTrace
  <2> QED
    BY <2>1, <2>2, <2>3, <2>4
<1>5. CASE RunUnityApp \/ \E t \in Temps : StartProfiling(t)
  BY <1>5 DEF RunUnityApp, StartProfiling
<1> QED
  BY <1>2, <1>3, <1>4, <1>5 DEF Next, Upgrades, Aside

(* Nor do they leave a file with anything but whole batches.               *)
LEMMA AsideWhole ==
    ASSUME StoreInv, PlaceInv', Next, Aside
    PROVE  BatchInv'
<1>1. /\ BatchInv /\ batch \in Nat /\ DOMAIN disk = Paths
      /\ thread \in {"none", "idle", "batch"}
  BY DEF StoreInv, TypeOK, StoreOK, SessionOK
<1>2. UNCHANGED <<thread, batch, torn, part>>
  BY AsideThread
<1> DEFINE Fine(c) == Past(c.rows, batch) /\ Spanned(c.rows, torn)
<1>3. Fine(Empty)
  BY EmptyFacts, NoRows
<1>4. \A p \in Paths : disk[p] # Absent => Fine(disk[p])
  BY <1>1 DEF BatchInv
<1>5. thread # "batch" => Fine(work)
  BY <1>1, FilledSpanned DEF BatchInv
<1>6. thread = "none" => Fine(work')
  <2>1. CASE work' \in {work, Empty} \/ \E p \in Paths : disk[p] # Absent /\ work' = disk[p]
    BY <1>3, <1>4, <1>5, <2>1
  <2>2. CASE \E m \in todo : UpgradeQuery(m)
    BY <1>5, <2>2, QueryEffect
  <2>3. CASE \E m \in todo : UpgradeRecord(m)
    <3>1. disk[file] # Absent /\ file \in Paths
      BY <2>3, OpenFile DEF UpgradeRecord, Upgrading, StoreInv, PlaceInv
    <3> QED
      BY <1>4, <1>5, <2>3, <3>1, RecordEffect
  <2> QED
    BY <2>1, <2>2, <2>3, WorkOrigin DEF Aside
<1>7. ASSUME NEW p \in Paths, disk'[p] # Absent
      PROVE  Fine(disk'[p])
  <2>1. CASE disk'[p] \in {disk[p], Absent, Empty}
    BY <1>3, <1>4, <1>7, <2>1
  <2>2. CASE disk'[p] = work' /\ \E m \in todo : UpgradeRecord(m)
    <3>1. thread = "none"
      BY <2>2 DEF UpgradeRecord, Upgrading, StoreInv, PlaceInv
    <3> QED
      BY <1>6, <2>2, <3>1
  <2>3. CASE disk'[p] = work /\ ~Busy /\ file # NoFile
    <3>1. CASE thread = "batch"
      <4>1. work = disk[file]
        BY <1>1, <2>3, <3>1 DEF BatchInv, Busy
      <4> QED
        BY <1>4, <2>3, <4>1, OpenFile
    <3> QED
      BY <1>5, <2>3, <3>1
  <2> QED
    BY <2>1, <2>2, <2>3, DiskOrigin DEF Aside
<1>8. thread # "none" => UNCHANGED <<work, inTx, file>> /\ disk'[file] = disk[file]
  BY AsideThread
<1> HIDE DEF Fine
<1>9. \A p \in Paths : disk'[p] # Absent =>
           Past(disk'[p].rows, batch) /\ Spanned(disk'[p].rows, torn)
  BY <1>7 DEF Fine
<1>10. thread = "none" => Past(work'.rows, batch) /\ Spanned(work'.rows, torn)
  BY <1>6 DEF Fine
<1> QED
  BY <1>1, <1>2, <1>8, <1>9, <1>10, NewStep DEF BatchInv

(* Every action keeps batches whole in the files.                          *)
LEMMA BatchStep ==
    ASSUME StoreInv, Next
    PROVE  BatchInv'
<1> USE DEF window, store, history
<1>1. /\ BatchInv /\ batch \in Nat /\ DOMAIN disk = Paths
  BY DEF StoreInv, TypeOK, StoreOK, SessionOK
<1>2. PlaceInv'
  BY PlaceStep
<1>3. CASE BeginBatch
  <2>1. /\ UNCHANGED <<disk, work, batch, torn, file, ui, job>>
        /\ thread = "idle" /\ thread' = "batch" /\ part' = 0 /\ inTx'
    BY <1>3 DEF BeginBatch, Begun
  <2>2. Past(work.rows, batch)
    BY <1>1, <2>1 DEF BatchInv
  <2>3. PartsOf(work.rows, batch) = {} /\ Past(work.rows, batch + 1)
    BY <1>1, <2>2 DEF PartsOf, Past
  <2>4. 1..0 = {}
    OBVIOUS
  <2> QED
    BY <1>1, <2>1, <2>3, <2>4 DEF BatchInv
<1>4. CASE UpgradeDone
  <2>1. UNCHANGED <<disk, work, batch, torn, file, job>> /\ ui = "upgrade" /\ ui' # "upgrade"
    BY <1>4 DEF UpgradeDone, Upgrading, AfterJob, AfterSave
  <2>2. thread = "none"
    BY <2>1 DEF StoreInv, PlaceInv
  <2>3. \/ thread' = "none"
        \/ thread' = "idle" /\ job \in {"start", "run"}
    BY <1>4, <2>2 DEF UpgradeDone
  <2>4. CASE thread' = "idle" /\ job \in {"start", "run"}
    <3>1. work.rows = {} /\ disk[file].rows = {}
      BY <1>1, <2>1, <2>4 DEF BatchInv
    <3> QED
      BY <1>1, <2>1, <2>4, <3>1, NoRows DEF BatchInv
  <2> QED
    BY <1>1, <2>1, <2>2, <2>3, <2>4 DEF BatchInv
<1>5. CASE StopProfiling
  <2>1. /\ UNCHANGED <<disk, work, batch, torn, file, ui, job>>
        /\ thread = "idle" /\ thread' = "none"
    BY <1>5 DEF StopProfiling
  <2>2. Past(work.rows, batch) /\ Filled(work.rows, batch, torn)
    BY <1>1, <2>1 DEF BatchInv
  <2> QED
    BY <1>1, <2>1, <2>2, FilledSpanned DEF BatchInv
<1>6. CASE Exit
  <2>1. /\ UNCHANGED <<batch, torn>> /\ thread' = "none" /\ work' = Empty /\ ui' = "go"
    BY <1>6 DEF Exit, Going
  <2>2. \A p \in Paths : disk'[p] # Absent => disk'[p] = disk[p]
    BY <1>1, <1>6 DEF Exit, Closed
  <2> QED
    BY <1>1, <2>1, <2>2, EmptyFacts, NoRows DEF BatchInv
<1> QED
  BY <1>2, <1>3, <1>4, <1>5, <1>6, InsertWhole, CommitWhole, AsideWhole DEF Aside

-----------------------------------------------------------------------------
(* The invariant holds at first and always.                                *)

(* The invariant holds at first.                                           *)
LEMMA StoreInit ==
    ASSUME Init
    PROVE  StoreInv
<1>1. PICK d \in [Files -> Traces \cup {Absent}] :
         /\ disk = [p \in Paths |-> IF p \in Files THEN d[p] ELSE Absent]
         /\ kept = [f \in Files |-> RowsIn(d[f])]
  BY DEF Init
<1>2. /\ ui = "idle" /\ op = "open" /\ job = "open" /\ todo = {} /\ step = 0 /\ dead = "no"
      /\ file = NoFile /\ work = Empty /\ inTx = FALSE /\ thread = "none" /\ part = 0
      /\ name = NoFile /\ temp = FALSE /\ ids = << >> /\ types = << >> /\ next = 0
      /\ batch = 1 /\ count = [ops |-> 0, faults |-> 0]
      /\ last = NoFile /\ exposed = {} /\ torn = {} /\ sources = 0 /\ asked = FALSE
  BY DEF Init
<1>3. \A p \in Paths : disk[p] = Absent \/ disk[p] \in Traces
  BY <1>1
<1>4. WindowOK /\ SessionOK
  <2>1. 0 \in 0..Cardinality(Parts)
    BY PartsType
  <2> QED
    BY <1>2, <2>1 DEF WindowOK, SessionOK
<1>5. StoreOK
  BY <1>1, <1>2, <1>3, TraceFacts, EmptyFacts DEF StoreOK
<1>6. NamesOK
  <2>1. DOMAIN ids = {} /\ DOMAIN types = {}
    BY <1>2
  <2> QED
    BY <1>2, <2>1 DEF NamesOK
<1>7. HistoryOK
  <2>1. kept \in [Files -> (SUBSET Rows) \cup {Absent}]
    <3>1. \A c \in Traces : c.rows \in SUBSET Rows
      BY TraceFacts DEF Contents
    <3> QED
      BY <1>1, <3>1 DEF RowsIn
  <2> QED
    BY <1>2, <2>1 DEF HistoryOK
<1>8. PlaceInv /\ AskInv
  BY <1>2, PathFacts DEF PlaceInv, AskInv
<1>9. SchemaInv
  BY <1>2, <1>3, TraceFacts, EmptyFacts DEF SchemaInv
<1>10. BatchInv
  <2>1. ASSUME NEW c \in Traces
        PROVE  Past(c.rows, 1) /\ Spanned(c.rows, {})
    <3>1. \A r \in c.rows : r.batch = 0 /\ PartsOf(c.rows, 0) = Parts
      BY TraceFacts
    <3>2. 0..0 = {0}
      OBVIOUS
    <3> QED
      BY <3>1, <3>2 DEF Past, Spanned
  <2>2. Past({}, 1) /\ Spanned({}, {})
    BY DEF Past, Spanned
  <2> QED
    BY <1>2, <1>3, <2>1, <2>2, EmptyFacts DEF BatchInv
<1>11. KeptInv
  BY <1>1, <1>2, PathFacts DEF KeptInv, KeptUnlessStarted
<1> QED
  BY <1>4, <1>5, <1>6, <1>7, <1>8, <1>9, <1>10, <1>11 DEF StoreInv, TypeOK

(* The invariant holds when nothing changes.                               *)
LEMMA StoreStutter ==
    ASSUME StoreInv, UNCHANGED vars
    PROVE  StoreInv'
<1> USE DEF vars, window, store, names, history
<1>1. WindowOK' /\ StoreOK' /\ SessionOK' /\ NamesOK' /\ HistoryOK'
  BY DEF StoreInv, TypeOK, WindowOK, StoreOK, SessionOK, NamesOK, HistoryOK
<1>2. PlaceInv' /\ AskInv'
  BY DEF StoreInv, PlaceInv, AskInv
<1>3. SchemaInv'
  BY DEF StoreInv, SchemaInv, Whole, IsNext
<1>4. BatchInv'
  BY DEF StoreInv, BatchInv
<1>5. KeptInv'
  BY DEF StoreInv, KeptInv, KeptUnlessStarted
<1> QED
  BY <1>1, <1>2, <1>3, <1>4, <1>5 DEF StoreInv, TypeOK

(* The inductive invariant.                                                *)
THEOREM StoreInvariant == Spec => []StoreInv
<1>1. Init => StoreInv
  BY StoreInit
<1>2. StoreInv /\ [Next]_vars => StoreInv'
  <2> SUFFICES ASSUME StoreInv, [Next]_vars
               PROVE  StoreInv'
    OBVIOUS
  <2>1. CASE Next
    <3>1. TypeOK'
      BY <2>1, WindowStep, StoreTypeStep, SessionStep, NamesStep, HistoryStep DEF TypeOK
    <3> QED
      BY <2>1, <3>1, PlaceStep, SchemaStep, BatchStep, KeptStep, AskStep DEF StoreInv
  <2>2. CASE UNCHANGED vars
    BY <2>2, StoreStutter
  <2> QED
    BY <2>1, <2>2
<1> QED
  BY <1>1, <1>2, PTL DEF Spec

(* Every variable keeps its type: files, names, rows and maps are what     *)
(* persistent_storage and the window take them for.                        *)
THEOREM StoreTypeCorrect == Spec => []TypeOK
<1>1. StoreInv => TypeOK
  BY DEF StoreInv
<1> QED
  BY <1>1, StoreInvariant, PTL

(* Wherever upgrade_database stops, no file has half a migration.          *)
THEOREM MigrationsAreWhole == Spec => []SchemaWhole
<1>1. StoreInv => SchemaWhole
  BY DEF StoreInv, SchemaInv, SchemaWhole, Whole
<1> QED
  BY <1>1, StoreInvariant, PTL

(* No file has a part of a batch, or a batch after one that is missing,    *)
(* except for those an insert or a commit of save_frame_events has lost.   *)
THEOREM BatchesAreWhole == Spec => []BatchesWhole
<1>1. StoreInv => BatchesWhole
  BY DEF StoreInv, BatchInv, BatchesWhole, Spanned, PartsOf
<1> QED
  BY <1>1, StoreInvariant, PTL

(* Only onStartProfiling removes a trace, and only the one saved last.     *)
THEOREM TracesAreKept == Spec => []KeptUnlessStarted
<1>1. StoreInv => KeptUnlessStarted
  BY DEF StoreInv, KeptInv
<1> QED
  BY <1>1, StoreInvariant, PTL

(* trySaveUnsavedData has asked before the rows of a session are left.     *)
THEOREM UnsavedIsOffered == Spec => UnsavedOffered
<1> DEFINE Left == (file \in Unsaved /\ work.rows # {} /\ file' # file) => asked \/ job' = "save"
<1>1. ASSUME StoreInv, Next, file \in Unsaved, work.rows # {}, file' # file
      PROVE  asked \/ job' = "save"
  <2>1. temp /\ file # NoFile
    BY <1>1, PathFacts DEF StoreInv, AskInv
  <2>2. CASE \E f \in Files : SaveCopies(f)
    BY <1>1, <2>2, CopyEffect
  <2>3. CASE ui = "go"
    BY <1>1, <2>1, <2>3 DEF StoreInv, AskInv
  <2>4. CASE Upgrades \/ RegisterFails \/ UpgradeDone
    BY <1>1, <2>4 DEF store, Upgrades, UpgradeQuery, UpgradeRecord, UpgradeFails, RegisterFails,
       UpgradeDone
  <2>5. CASE BeginBatch \/ CommitBatch \/ \E n \in Names : InsertRow(n)
    BY <1>1, <2>5 DEF BeginBatch, CommitBatch, InsertRow
  <2>6. CASE \/ \E o \in {"open", "start", "run", "save", "exit"} : Choose(o)
             \/ \E a \in {"save", "go", "idle"} : Answer(a)
             \/ SaveNothing \/ SaveOntoItself \/ CloseAsserts \/ StopProfiling
             \/ \E f \in Files : SaveFails(f)
    BY <1>1, <2>6 DEF store, Choose, Answer, SaveNothing, SaveOntoItself, CloseAsserts,
       StopProfiling, SaveFails
  <2>7. CASE \/ OpenNothing \/ Exit \/ \E f \in Files : OpenTrace(f)
             \/ RunUnityApp \/ \E t \in Temps : StartProfiling(t)
    BY <2>3, <2>7 DEF OpenNothing, Exit, OpenTrace, RunUnityApp, StartProfiling, Going
  <2> QED
    BY <1>1, <2>2, <2>4, <2>5, <2>6, <2>7 DEF Next, Upgrades
<1>2. StoreInv /\ [Next]_vars => [Left]_vars
  BY <1>1
<1> QED
  BY <1>2, StoreInvariant, PTL DEF Spec, UnsavedOffered

-----------------------------------------------------------------------------
(* The names of the first trace or session.                                *)

(* A map ty of ids to names agrees with the rows and types of a database.  *)
Knows(ty, i, n) == i \in DOMAIN ty /\ ty[i] = n
RowsKnown(c, ty) == \A r \in c.rows : Knows(ty, r.id, r.name)
TypesKnown(c, ty) == \A t \in c.types : Knows(ty, t[1], t[2])

(* Loading the types of a database makes all its rows known.               *)
Own(c, ty) ==
    /\ \A t, u \in c.types : t[1] = u[1] => t[2] = u[2]
    /\ \A t \in c.types : t[1] \in DOMAIN ty => ty[t[1]] = t[2]
    /\ \A r \in c.rows : <<r.id, r.name>> \in c.types \/ Knows(ty, r.id, r.name)

(* The ids given out in a session are below the next one.                  *)
Numbered ==
    /\ \A i \in DOMAIN types : i < next
    /\ \A n \in DOMAIN ids : Knows(types, ids[n], n)

(* Before the first trace or session; a trace, whose names are known once  *)
(* it is loaded; a session, whose names are known all the time; and what   *)
(* makes a failed upgrade visible in the tables.                           *)
FreshInv ==
    sources = 0 => /\ file = NoFile /\ ids = << >> /\ types = << >> /\ next = 0
                   /\ \A f \in Files : disk[f] # Absent => Own(disk[f], types)
TraceInv ==
    sources <= 1 /\ file \in Files =>
        /\ Own(work, types) /\ work.types = disk[file].types
        /\ ui # "upgrade" /\ Registered => RowsKnown(work, types)
SessionInv ==
    sources <= 1 /\ file \in Unsaved =>
        /\ Numbered
        /\ RowsKnown(work, types) /\ TypesKnown(work, types)
        /\ RowsKnown(disk[file], types) /\ TypesKnown(disk[file], types)
TodoInv ==
    ui = "upgrade" => \A m \in todo : m \notin disk[file].done /\ m \notin work.done
NamesInv == FreshInv /\ TraceInv /\ SessionInv /\ TodoInv

(* What a map knows of a database is what it has in rows and types.        *)
LEMMA KnownSame ==
    ASSUME NEW c, NEW d, NEW ty, d.rows = c.rows, d.types = c.types
    PROVE  /\ RowsKnown(c, ty) => RowsKnown(d, ty)
           /\ TypesKnown(c, ty) => TypesKnown(d, ty)
           /\ Own(c, ty) => Own(d, ty)
BY DEF RowsKnown, TypesKnown, Own

(* A database that is known need not be loaded.                            *)
LEMMA KnownOwn ==
    ASSUME NEW c, NEW ty, RowsKnown(c, ty), TypesKnown(c, ty)
    PROVE  Own(c, ty)
BY DEF RowsKnown, TypesKnown, Own, Knows

(* A new database is known.                                                *)
LEMMA EmptyKnown ==
    ASSUME NEW ty
    PROVE  RowsKnown(Empty, ty) /\ TypesKnown(Empty, ty)
BY DEF RowsKnown, TypesKnown, Empty

(* A trace of an earlier version knows its own names.                      *)
LEMMA TraceOwn ==
    ASSUME NEW c \in Traces
    PROVE  Own(c, << >>)
<1>1. PICK k \in 1..Len(Migrations), n \in Names : c = Trace(k, n)
  BY DEF Traces
<1>2. c.types = {<<0, n>>}
  BY <1>1 DEF Trace
<1>3. c.rows = {[batch |-> 0, part |-> p, id |-> 0, name |-> n] : p \in Parts}
  BY <1>1 DEF Trace
<1>4. \A r \in c.rows : r.id = 0 /\ r.name = n
  BY <1>3
<1>5. DOMAIN << >> = {}
  OBVIOUS
<1> QED
  BY <1>2, <1>4, <1>5 DEF Own

(* load_types_and_callstacks makes a database known.                       *)
LEMMA LoadKnows ==
    ASSUME NEW c \in Contents, NEW ty, Own(c, ty)
    PROVE  LET l == Loaded(ty, TypesOf(c))
           IN  RowsKnown(c, l) /\ TypesKnown(c, l) /\ Own(c, l)
<1> DEFINE new == TypesOf(c)
           l == Loaded(ty, new)
<1>1. \A t \in c.types : t[1] \in DOMAIN new
  BY DEF TypesOf
<1>2. ASSUME NEW t \in c.types
      PROVE  new[t[1]] = t[2]
  <2> DEFINE u == CHOOSE u \in c.types : u[1] = t[1]
  <2>1. u \in c.types /\ u[1] = t[1]
    OBVIOUS
  <2>2. new[t[1]] = u[2]
    BY <1>1 DEF TypesOf
  <2> HIDE DEF u
  <2> QED
    BY <2>1, <2>2 DEF Own
<1>3. /\ DOMAIN l = DOMAIN ty \cup DOMAIN new
      /\ \A x \in DOMAIN ty : l[x] = ty[x]
      /\ \A x \in DOMAIN new : x \notin DOMAIN ty => l[x] = new[x]
  <2> HIDE DEF new
  <2> QED
    BY DEF Loaded
<1> HIDE DEF new, l
<1>4. TypesKnown(c, l)
  BY <1>1, <1>2, <1>3 DEF TypesKnown, Knows, Own
<1>5. RowsKnown(c, l)
  <2>1. SUFFICES ASSUME NEW r \in c.rows PROVE Knows(l, r.id, r.name)
    BY DEF RowsKnown
  <2>2. CASE Knows(ty, r.id, r.name)
    BY <1>3, <2>2 DEF Knows
  <2>3. CASE <<r.id, r.name>> \in c.types
    <3>1. <<r.id, r.name>>[1] = r.id /\ <<r.id, r.name>>[2] = r.name
      OBVIOUS
    <3> QED
      BY <1>4, <2>3, <3>1 DEF TypesKnown
  <2> QED
    BY <2>2, <2>3 DEF Own
<1>6. Own(c, l)
  BY <1>4, <1>5, KnownOwn
<1> QED
  BY <1>4, <1>5, <1>6 DEF new, l

(* A file in which a migration that is still to run is not recorded cannot *)
(* have its queries registered.                                            *)
LEMMA NotRegistered ==
    ASSUME NEW c, Whole(c), NEW m \in DOMAIN Migrations, m \notin c.done
    PROVE  ~(TablesOf(DOMAIN Migrations) \subseteq c.schema)
<1>1. Migrations[m] \in Nat \ {0}
  BY TraceStoreAssumption
<1>2. <<m, 1>> \in TablesOf(DOMAIN Migrations)
  BY <1>1, TablesType
<1>3. <<m, 1>> \notin TablesOf(c.done)
  BY DEF TablesOf, Tables
<1> QED
  BY <1>2, <1>3 DEF Whole

(* An upgrade changes neither rows nor types, unless it takes back all     *)
(* that is not in the file.                                                *)
LEMMA UpgradeEffect ==
    ASSUME StoreInv, Upgrades
    PROVE  /\ ui = "upgrade" /\ file \in Paths /\ UNCHANGED <<file, names, sources>>
           /\ \/ disk' = disk
              \/ disk' = [disk EXCEPT ![file] = work']
           /\ \/ work'.rows = work.rows /\ work'.types = work.types
              \/ work' = disk[file] /\ disk' = disk
<1>1. file \in Paths /\ work \in Contents
  BY OpenFile DEF Upgrades, UpgradeQuery, UpgradeRecord, UpgradeFails, Upgrading, StoreInv,
     PlaceInv, TypeOK, StoreOK
<1>2. /\ UNCHANGED <<file, names, sources>> /\ ui = "upgrade"
  BY DEF Upgrades, UpgradeQuery, UpgradeRecord, UpgradeFails, Upgrading, history, names
<1>3. CASE \E m \in todo : UpgradeQuery(m)
  <2>1. disk' = disk
    BY <1>3, QueryEffect
  <2>2. PICK x : work' = [work EXCEPT !.schema = x]
    BY <1>3 DEF UpgradeQuery
  <2>3. work'.rows = work.rows /\ work'.types = work.types
    BY <1>1, <2>2 DEF Contents
  <2> QED
    BY <1>1, <1>2, <2>1, <2>3
<1>4. CASE \E m \in todo : UpgradeRecord(m)
  <2>1. PICK m \in todo : UpgradeRecord(m)
    BY <1>4
  <2> DEFINE c == [work EXCEPT !.done = work.done \cup {m}]
  <2>2. \/ disk' = [disk EXCEPT ![file] = c] /\ work' = c
        \/ disk' = disk /\ work' = c
        \/ disk' = disk /\ work' = disk[file]
    BY <2>1 DEF UpgradeRecord, Commit, CommitFails
  <2>3. c.rows = work.rows /\ c.types = work.types
    BY <1>1 DEF Contents
  <2> HIDE DEF c
  <2> QED
    BY <1>1, <1>2, <2>2, <2>3
<1>5. CASE \E m \in todo : UpgradeFails(m)
  BY <1>1, <1>2, <1>5 DEF UpgradeFails, Rollback
<1> QED
  BY <1>3, <1>4, <1>5 DEF Upgrades

(* The migrations still to run are recorded neither in the file nor in the *)
(* connection.                                                             *)
LEMMA TodoStep ==
    ASSUME StoreInv, TodoInv, Next
    PROVE  TodoInv'
<1> USE DEF window, store
<1>1. /\ DOMAIN disk = Paths /\ work \in Contents
      /\ ui = "upgrade" => file \in Paths /\ thread = "none"
  BY OpenFile DEF StoreInv, TypeOK, StoreOK, PlaceInv
<1>2. CASE \E m \in todo : UpgradeQuery(m)
  <2>1. disk' = disk /\ work'.done = work.done
    BY <1>2, QueryEffect
  <2> QED
    BY <1>2, <2>1 DEF TodoInv, UpgradeQuery, Upgrading
<1>3. CASE \E m \in todo : UpgradeRecord(m)
  <2>1. PICK m \in todo : UpgradeRecord(m)
    BY <1>3
  <2> DEFINE c == [work EXCEPT !.done = work.done \cup {m}]
  <2>2. \/ disk' = [disk EXCEPT ![file] = c] /\ work' = c
        \/ disk' = disk /\ work' = c
        \/ disk' = disk /\ work' = disk[file]
    BY <2>1 DEF UpgradeRecord, Commit, CommitFails
  <2>3. c.done = work.done \cup {m}
    BY <1>1 DEF Contents
  <2>4. ui = "upgrade" /\ file' = file /\ todo' = todo \ {m}
    BY <2>1 DEF UpgradeRecord, Upgrading
  <2> HIDE DEF c
  <2>5. \A k \in todo : k # m => k \notin disk[file].done /\ k \notin c.done
    BY <2>3, <2>4 DEF TodoInv
  <2> QED
    BY <1>1, <2>2, <2>4, <2>5 DEF TodoInv
<1>4. CASE \/ \E m \in todo : UpgradeFails(m)
           \/ RegisterFails \/ UpgradeDone
  BY <1>4 DEF TodoInv, UpgradeFails, RegisterFails, UpgradeDone, AfterJob, AfterSave
<1>5. CASE BeginBatch \/ CommitBatch \/ (\E n \in Names : InsertRow(n)) \/ StopProfiling
  BY <1>1, <1>5 DEF TodoInv, BeginBatch, CommitBatch, InsertRow, StopProfiling
<1>6. CASE \/ \E o \in {"open", "start", "run", "save", "exit"} : Choose(o)
           \/ \E a \in {"save", "go", "idle"} : Answer(a)
           \/ SaveNothing \/ SaveOntoItself \/ CloseAsserts \/ OpenNothing \/ Exit
           \/ \E f \in Files : SaveFails(f)
  BY <1>6 DEF TodoInv, Choose, Answer, SaveNothing, SaveOntoItself, CloseAsserts, OpenNothing,
     Exit, SaveFails, AfterSave, Going
<1>7. CASE \E f \in Files : SaveCopies(f)
  <2>1. PICK f \in Files : SaveCopies(f)
    BY <1>7
  <2>2. work' = work /\ disk'[f] = work
    BY <2>1, CopyEffect
  <2>3. ui' = "upgrade" => file' = f /\ todo' = Incomplete(work)
    BY <2>1 DEF SaveCopies, AfterSave
  <2> QED
    BY <2>2, <2>3 DEF TodoInv, Incomplete
<1>8. CASE \E f \in Files : OpenTrace(f)
  <2>1. PICK f \in Files : OpenTrace(f)
    BY <1>8
  <2>2. work' = disk[f] /\ disk' = Closed(disk) /\ file' = f /\ todo' = Incomplete(disk[f])
    BY <2>1 DEF OpenTrace
  <2>3. disk'[f] = disk[f]
    BY <2>2, ClosedFacts, PathFacts
  <2> QED
    BY <2>2, <2>3 DEF TodoInv, Incomplete
<1>9. CASE RunUnityApp \/ \E t \in Temps : StartProfiling(t)
  <2>1. ui' = "upgrade" => work' = Empty /\ disk'[file'] = Empty
    BY <1>9, NewEffect
  <2>2. Empty.done = {}
    BY DEF Empty
  <2> QED
    BY <2>1, <2>2 DEF TodoInv
<1> QED
  BY <1>2, <1>3, <1>4, <1>5, <1>6, <1>7, <1>8, <1>9 DEF Next

(* A session gives a new name the next id, and a row the id of its name.   *)
LEMMA InsertNames ==
    ASSUME StoreInv, SessionInv, sources <= 1, NEW n \in Names, InsertRow(n)
    PROVE  /\ file \in Unsaved /\ UNCHANGED <<file, disk, sources>>
           /\ Numbered'
           /\ \A i \in DOMAIN types : i \in DOMAIN types' /\ types'[i] = types[i]
           /\ RowsKnown(work', types') /\ TypesKnown(work', types')
<1> DEFINE new == n \notin DOMAIN ids
           id  == IF new THEN next ELSE ids[n]
           row == [batch |-> batch, part |-> part + 1, id |-> id, name |-> n]
           ts  == IF new THEN work.types \cup {<<id, n>>} ELSE work.types
<1>1. /\ file \in Unsaved /\ UNCHANGED <<file, disk, sources>>
  BY InsertEffect DEF InsertRow, StoreInv, PlaceInv
<1>2. /\ Numbered /\ RowsKnown(work, types) /\ TypesKnown(work, types)
      /\ next \in Nat /\ DOMAIN types \subseteq Nat
  BY <1>1 DEF SessionInv, StoreInv, TypeOK, NamesOK
<1>3. /\ ids' = Loaded(ids, [x \in {n} |-> id])
      /\ types' = IF new THEN Loaded(types, [x \in {id} |-> n]) ELSE types
      /\ next' = IF new THEN next + 1 ELSE next
  BY DEF InsertRow
<1>4. /\ DOMAIN ids' = DOMAIN ids \cup {n}
      /\ \A x \in DOMAIN ids : ids'[x] = ids[x]
      /\ new => ids'[n] = id
  <2> HIDE DEF id
  <2> QED
    BY <1>3 DEF Loaded
<1>5. /\ Numbered' /\ Knows(types', id, n)
      /\ \A i \in DOMAIN types : i \in DOMAIN types' /\ types'[i] = types[i]
  <2>1. CASE new
    <3>1. id = next /\ next \notin DOMAIN types
      BY <1>2, <2>1 DEF Numbered
    <3>2. types' = Loaded(types, [x \in {next} |-> n]) /\ next' = next + 1
      BY <1>3, <2>1, <3>1
    <3>3. /\ DOMAIN types' = DOMAIN types \cup {next}
          /\ \A i \in DOMAIN types : types'[i] = types[i]
          /\ types'[next] = n
      BY <3>1, <3>2 DEF Loaded
    <3>4. \A i \in DOMAIN types' : i < next'
      BY <1>2, <3>2, <3>3 DEF Numbered
    <3>5. \A x \in DOMAIN ids' : Knows(types', ids'[x], x)
      BY <1>2, <1>4, <2>1, <3>1, <3>3 DEF Numbered, Knows
    <3> QED
      BY <3>1, <3>3, <3>4, <3>5 DEF Numbered, Knows
  <2>2. CASE ~new
    <3>1. types' = types /\ next' = next /\ id = ids[n] /\ DOMAIN ids' = DOMAIN ids
      BY <1>3, <1>4, <2>2
    <3> QED
      BY <1>2, <1>4, <2>2, <3>1 DEF Numbered, Knows
  <2> QED
    BY <2>1, <2>2
<1>6. work \in Contents
  BY DEF StoreInv, TypeOK, StoreOK
<1>7. PICK rows \in {work.rows \cup {row}, work.rows}, kinds \in {ts, work.types} :
         work' = [work EXCEPT !.rows = rows, !.types = kinds]
  BY DEF InsertRow, Write
<1>8. work.types \subseteq ts
  OBVIOUS
<1> HIDE DEF ts, row
<1>9. /\ work'.rows \subseteq work.rows \cup {row}
      /\ work'.types \subseteq ts
  BY <1>6, <1>7, <1>8 DEF Contents
<1>10. row.id = id /\ row.name = n
  BY DEF row
<1>11. \A i, x : Knows(types, i, x) => Knows(types', i, x)
  BY <1>5 DEF Knows
<1> HIDE DEF id
<1>12. RowsKnown(work', types')
  BY <1>2, <1>5, <1>9, <1>10, <1>11 DEF RowsKnown
<1>13. TypesKnown(work', types')
  <2>1. \A t \in ts : t \in work.types \/ t = <<id, n>>
    BY DEF ts
  <2> QED
    BY <1>2, <1>5, <1>9, <1>11, <2>1 DEF TypesKnown
<1> QED
  BY <1>1, <1>5, <1>12, <1>13

(* Every action keeps the names of the first trace or session.             *)
LEMMA NamesInvStep ==
    ASSUME StoreInv, StoreInv', NamesInv, Next
    PROVE  NamesInv'
<1> USE DEF window, store, names, history
<1>1. TodoInv'
  BY TodoStep DEF NamesInv
<1>2. /\ DOMAIN disk = Paths /\ work \in Contents /\ sources \in Nat
      /\ thread # "none" => file \in Unsaved
      /\ FreshInv /\ TraceInv /\ SessionInv
  BY DEF StoreInv, TypeOK, StoreOK, HistoryOK, PlaceInv, NamesInv
<1>3. SUFFICES FreshInv' /\ TraceInv' /\ SessionInv'
  BY <1>1 DEF NamesInv
<1>4. CASE Upgrades
  <2>1. /\ ui = "upgrade" /\ file \in Paths /\ UNCHANGED <<file, names, sources>>
        /\ \/ disk' = disk
           \/ disk' = [disk EXCEPT ![file] = work']
        /\ \/ work'.rows = work.rows /\ work'.types = work.types
           \/ work' = disk[file] /\ disk' = disk
    BY <1>4, UpgradeEffect
  <2>2. FreshInv'
    BY <1>2, <2>1, PathFacts DEF FreshInv
  <2>3. ASSUME sources <= 1, file \in Files
        PROVE  /\ Own(work', types) /\ work'.types = disk'[file].types
               /\ ui' # "upgrade" /\ Registered' => RowsKnown(work', types)
    <3>1. /\ Own(work, types) /\ work.types = disk[file].types
          /\ work.rows = disk[file].rows
      BY <1>2, <2>3 DEF TraceInv, StoreInv, KeptInv
    <3>2. work'.rows = work.rows /\ work'.types = work.types
      BY <2>1, <3>1
    <3>3. Own(work', types) /\ work'.types = disk'[file].types
      BY <1>2, <2>1, <3>1, <3>2, KnownSame
    <3>4. ui' # "upgrade" => ~Registered'
      <4>1. SUFFICES ASSUME ui' # "upgrade" PROVE ~Registered'
        OBVIOUS
      <4>2. PICK m \in todo : UpgradeFails(m)
        BY <1>4, <2>1, <4>1 DEF Upgrades, UpgradeQuery, UpgradeRecord
      <4>3. /\ work' = disk[file] /\ Whole(disk[file]) /\ m \notin disk[file].done
        BY <2>1, <4>2, OpenFile, PathFacts DEF UpgradeFails, Rollback, NamesInv, TodoInv
      <4>4. m \in DOMAIN Migrations
        BY DEF StoreInv, TypeOK, WindowOK
      <4> QED
        BY <4>3, <4>4, NotRegistered DEF Registered
    <3> QED
      BY <3>3, <3>4
  <2>4. ASSUME sources <= 1, file \in Unsaved
        PROVE  /\ RowsKnown(work', types) /\ TypesKnown(work', types)
               /\ RowsKnown(disk'[file], types) /\ TypesKnown(disk'[file], types)
    <3>1. /\ RowsKnown(work, types) /\ TypesKnown(work, types)
          /\ RowsKnown(disk[file], types) /\ TypesKnown(disk[file], types)
      BY <1>2, <2>4 DEF SessionInv
    <3>2. RowsKnown(work', types) /\ TypesKnown(work', types)
      BY <2>1, <3>1, KnownSame
    <3> QED
      BY <1>2, <2>1, <3>1, <3>2
  <2>5. TraceInv'
    BY <2>1, <2>3 DEF TraceInv
  <2>6. SessionInv'
    BY <1>2, <2>1, <2>4 DEF SessionInv, Numbered
  <2> QED
    BY <2>2, <2>5, <2>6
<1>5. CASE UpgradeDone
  <2>1. /\ UNCHANGED <<disk, file, work, sources, next>> /\ ui = "upgrade" /\ file # NoFile
    BY <1>5 DEF UpgradeDone, Upgrading, StoreInv, PlaceInv
  <2>2. FreshInv'
    BY <1>2, <2>1 DEF FreshInv
  <2>3. CASE job \in {"save", "open"}
    <3>1. file \in Files /\ types' = Loaded(types, TypesOf(work))
      BY <1>5, <2>1, <2>3 DEF UpgradeDone, StoreInv, PlaceInv
    <3>2. ASSUME sources <= 1
          PROVE  /\ Own(work, types') /\ RowsKnown(work, types')
                 /\ work.types = disk[file].types
      <4>1. Own(work, types) /\ work.types = disk[file].types
        BY <1>2, <3>1, <3>2 DEF TraceInv
      <4> QED
        BY <1>2, <3>1, <4>1, LoadKnows
    <3> QED
      BY <2>1, <2>2, <3>1, <3>2, PathFacts DEF TraceInv, SessionInv
  <2>4. CASE job \in {"start", "run"}
    <3>1. file \in Unsaved /\ UNCHANGED <<types, ids>>
      BY <1>5, <2>1, <2>4 DEF UpgradeDone, StoreInv, PlaceInv
    <3> QED
      BY <1>2, <2>1, <2>2, <3>1, PathFacts DEF TraceInv, SessionInv, Numbered
  <2> QED
    BY <2>3, <2>4 DEF StoreInv, TypeOK, WindowOK
<1>6. CASE \/ RegisterFails \/ BeginBatch \/ StopProfiling
           \/ \E o \in {"open", "start", "run", "save", "exit"} : Choose(o)
           \/ \E a \in {"save", "go", "idle"} : Answer(a)
           \/ SaveNothing \/ SaveOntoItself \/ CloseAsserts
  <2>1. UNCHANGED <<disk, file, work, sources, ids, types, next>>
    BY <1>6 DEF RegisterFails, BeginBatch, StopProfiling, Choose, Answer, SaveNothing,
       SaveOntoItself, CloseAsserts
  <2>2. ui = "upgrade" /\ ui' # "upgrade" => ~Registered
    BY <1>6 DEF RegisterFails, BeginBatch, StopProfiling, Choose, Answer, SaveNothing,
       SaveOntoItself, CloseAsserts
  <2>3. Registered' <=> Registered
    BY <2>1 DEF Registered
  <2> QED
    BY <1>2, <2>1, <2>2, <2>3 DEF FreshInv, TraceInv, SessionInv, Numbered
<1>7. CASE \E n \in Names : InsertRow(n)
  <2>1. PICK n \in Names : InsertRow(n)
    BY <1>7
  <2>2. file \in Unsaved /\ UNCHANGED <<file, disk, sources>>
    BY <2>1, InsertEffect DEF InsertRow, StoreInv, PlaceInv
  <2>3. FreshInv' /\ TraceInv'
    BY <1>2, <2>2, PathFacts DEF FreshInv, TraceInv
  <2>4. ASSUME sources <= 1
        PROVE  /\ Numbered' /\ RowsKnown(work', types') /\ TypesKnown(work', types')
               /\ RowsKnown(disk[file], types') /\ TypesKnown(disk[file], types')
    <3>1. /\ Numbered'
          /\ \A i \in DOMAIN types : i \in DOMAIN types' /\ types'[i] = types[i]
          /\ RowsKnown(work', types') /\ TypesKnown(work', types')
      BY <1>2, <2>1, <2>4, InsertNames
    <3>2. RowsKnown(disk[file], types) /\ TypesKnown(disk[file], types)
      BY <1>2, <2>2, <2>4 DEF SessionInv
    <3> QED
      BY <3>1, <3>2 DEF RowsKnown, TypesKnown, Knows
  <2> QED
    BY <2>2, <2>3, <2>4 DEF SessionInv
<1>8. CASE CommitBatch
  <2>1. /\ file \in Unsaved /\ UNCHANGED <<file, sources, ids, types, next>>
        /\ \/ disk' = [disk EXCEPT ![file] = work] /\ work' = work
           \/ disk' = disk /\ work' = work
           \/ disk' = disk /\ work' = disk[file]
    BY <1>8, BatchEffect DEF CommitBatch
  <2>2. FreshInv' /\ TraceInv'
    BY <1>2, <2>1, PathFacts DEF FreshInv, TraceInv
  <2>3. SessionInv'
    BY <1>2, <2>1, PathFacts DEF SessionInv, Numbered
  <2> QED
    BY <2>2, <2>3
<1>9. CASE \E f \in Files : SaveFails(f)
  <2>1. PICK f \in Files : SaveFails(f)
    BY <1>9
  <2>2. /\ disk' = [disk EXCEPT ![f] = Absent] /\ f # file /\ file # NoFile /\ ui = "save"
        /\ UNCHANGED <<file, work, sources, ids, types, next>>
    BY <2>1 DEF SaveFails
  <2>3. file \in Paths /\ disk'[file] = disk[file] /\ (Registered' <=> Registered)
    BY <1>2, <2>2, OpenFile DEF Registered
  <2> QED
    BY <1>2, <2>2, <2>3 DEF FreshInv, TraceInv, SessionInv, Numbered
<1>10. CASE \E f \in Files : SaveCopies(f)
  <2>1. PICK f \in Files : SaveCopies(f)
    BY <1>10
  <2>2. /\ UNCHANGED <<work, sources, ids, types, next, thread>> /\ disk'[f] = work
        /\ ui = "save" /\ file # NoFile /\ file \in Paths
        /\ \/ thread # "none" /\ file' = file /\ disk'[file] = disk[file]
           \/ file' = f /\ ui' = "upgrade"
    BY <2>1, CopyEffect, OpenFile DEF SaveCopies
  <2>3. FreshInv'
    BY <1>2, <2>2 DEF FreshInv
  <2>4. CASE thread # "none" /\ file' = file /\ disk'[file] = disk[file]
    <3>1. file \in Unsaved
      BY <1>2, <2>4
    <3> QED
      BY <1>2, <2>2, <2>3, <2>4, <3>1, PathFacts DEF TraceInv, SessionInv, Numbered
  <2>5. CASE file' = f /\ ui' = "upgrade"
    <3>1. ASSUME sources <= 1
          PROVE  Own(work, types)
      <4>1. CASE file \in Files
        BY <1>2, <3>1, <4>1 DEF TraceInv
      <4>2. CASE file \in Unsaved
        BY <1>2, <3>1, <4>2, KnownOwn DEF SessionInv
      <4> QED
        BY <2>2, <4>1, <4>2 DEF Paths, Unsaved
    <3> QED
      BY <2>2, <2>3, <2>5, <3>1, PathFacts DEF TraceInv, SessionInv
  <2> QED
    BY <2>2, <2>4, <2>5
<1>11. CASE \E f \in Files : OpenTrace(f)
  <2>1. PICK f \in Files : OpenTrace(f)
    BY <1>11
  <2>2. /\ work' = disk[f] /\ disk' = Closed(disk) /\ file' = f /\ sources' = sources + 1
        /\ ui' = "upgrade" /\ types' = types /\ disk[f] # Absent
    BY <2>1 DEF OpenTrace
  <2>3. disk'[f] = disk[f]
    BY <2>2, ClosedFacts, PathFacts
  <2>4. sources' <= 1 => sources = 0
    BY <1>2, <2>2
  <2>5. sources' <= 1 => Own(disk[f], types)
    BY <1>2, <2>2, <2>4 DEF FreshInv
  <2>6. sources' # 0
    BY <1>2, <2>2
  <2> QED
    BY <2>2, <2>3, <2>5, <2>6, PathFacts DEF FreshInv, TraceInv, SessionInv
<1>12. CASE OpenNothing \/ Exit
  <2>1. file' = NoFile /\ UNCHANGED <<sources, ids, types, next>>
    BY <1>12 DEF OpenNothing, Exit
  <2>2. \A f \in Files : disk'[f] # Absent => disk'[f] = disk[f]
    BY <1>2, <1>12, PathFacts DEF OpenNothing, Exit, Closed
  <2> QED
    BY <1>2, <2>1, <2>2, PathFacts DEF FreshInv, TraceInv, SessionInv
<1>13. CASE RunUnityApp \/ \E t \in Temps : StartProfiling(t)
  <2>1. /\ UNCHANGED <<ids, types, next>> /\ work' = Empty
        /\ \/ file' \in Unsaved /\ disk'[file'] = Empty /\ sources' = sources + 1
           \/ file' = NoFile /\ sources' = sources
    <3>1. /\ work' = Empty
          /\ \/ file' \in Unsaved /\ disk'[file'] = Empty
             \/ file' = NoFile
      BY <1>13, NewEffect
    <3>2. /\ UNCHANGED <<ids, types, next>>
          /\ \/ sources' = sources + 1 /\ file' \in Unsaved
             \/ file' = NoFile /\ sources' = sources
      BY <1>13, PathFacts DEF RunUnityApp, StartProfiling, Created
    <3> QED
      BY <3>1, <3>2, PathFacts
  <2>2. CASE file' = NoFile /\ sources' = sources
    <3>1. \A f \in Files : disk'[f] # Absent => disk'[f] = disk[f]
      BY <1>2, <1>13, PathFacts DEF RunUnityApp, StartProfiling, Created, Closed
    <3> QED
      BY <1>2, <2>1, <2>2, <3>1, PathFacts DEF FreshInv, TraceInv, SessionInv
  <2>3. CASE file' \in Unsaved /\ disk'[file'] = Empty /\ sources' = sources + 1
    <3>1. sources' # 0 /\ (sources' <= 1 => sources = 0)
      BY <1>2, <2>3
    <3>2. sources = 0 => Numbered'
      BY <1>2, <2>1 DEF FreshInv, Numbered
    <3> QED
      BY <2>1, <2>3, <3>1, <3>2, EmptyKnown, PathFacts DEF FreshInv, TraceInv, SessionInv
  <2> QED
    BY <2>1, <2>2, <2>3
<1> QED
  BY <1>4, <1>5, <1>6, <1>7, <1>8, <1>9, <1>10, <1>11, <1>12, <1>13 DEF Next, Upgrades

(* At the start nothing is open, and the files are traces.                 *)
LEMMA NamesInit == Init => NamesInv
<1> SUFFICES ASSUME Init PROVE NamesInv
  OBVIOUS
<1>1. /\ file = NoFile /\ ids = << >> /\ types = << >> /\ next = 0 /\ ui = "idle"
  BY DEF Init
<1>2. \A f \in Files : disk[f] # Absent => disk[f] \in Traces
  BY PathFacts DEF Init
<1>3. FreshInv
  BY <1>1, <1>2, TraceOwn DEF FreshInv
<1> QED
  BY <1>1, <1>3, PathFacts DEF NamesInv, TraceInv, SessionInv, TodoInv

(* Nothing changes for the names while nothing happens.                    *)
LEMMA NamesStutter ==
    ASSUME NamesInv, UNCHANGED vars
    PROVE  NamesInv'
BY DEF NamesInv, FreshInv, TraceInv, SessionInv, TodoInv, Numbered, Registered, vars, window,
   store, names, history

(* The types shown for the first trace that is opened or recorded are its  *)
(* own, whatever is saved, stopped, closed or fails in between.            *)
THEOREM NamesAreOwn == Spec => []NamesMatch
<1>1. StoreInv /\ StoreInv' /\ NamesInv /\ [Next]_vars => NamesInv'
  BY NamesInvStep, NamesStutter
<1>2. StoreInv /\ NamesInv => NamesMatch
  <2>1. SUFFICES ASSUME StoreInv, NamesInv, sources <= 1, file # NoFile, ui = "idle", Registered
                 PROVE  RowsKnown(work, types)
    BY DEF NamesMatch, RowsKnown, Knows
  <2>2. file \in Files \/ file \in Unsaved
    BY <2>1, OpenFile DEF Paths, Unsaved
  <2> QED
    BY <2>1, <2>2 DEF NamesInv, TraceInv, SessionInv
<1> QED
  BY <1>1, <1>2, StoreInvariant, NamesInit, PTL DEF Spec
=============================================================================
