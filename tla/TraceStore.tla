---------------------------- MODULE TraceStore ----------------------------
(***************************************************************************)
(* The databases of the profiler's user interface: which file is open,     *)
(* what is in it, and when one is created, upgraded, saved, opened or      *)
(* removed.  One connection (persistent_storage) serves the thread of the  *)
(* user interface and, during a session, the message thread, which writes  *)
(* events in batches, one transaction each: save_frame_events.  A batch is *)
(* what has come of a frame when the frame changes or, in a frame of more  *)
(* events, 10001 of them: such a frame is several batches, and a file may  *)
(* hold the first of them only.  Events that wait for a batch when a       *)
(* session is stopped go into a batch of the next one.  When batches begin *)
(* is in Client; here a batch is Parts rows, each of one type.  sqlite is  *)
(* external: a transaction's changes reach the file when it ends, and      *)
(* closing drops them.                                                     *)
(***************************************************************************)
EXTENDS Integers, Sequences, FiniteSets

CONSTANTS
    Files,       \* names the user chooses in the file dialogs
    Temps,       \* names std::tmpnam returns
    Anon,        \* the empty name: a private database, gone when closed
    NoFile,      \* no database is open
    Absent,      \* contents of a file that does not exist
    Names,       \* names of object types
    Migrations,  \* all_migrations: how many queries each of them has
    Parts,       \* the rows of a batch
    MaxBatches,  \* bound on the batches recorded
    MaxOps,      \* bound on what the user asks for
    MaxFaults    \* bound on the failures of storage

ASSUME TraceStoreAssumption ==
    /\ Anon \notin Files \cup Temps /\ Files \cap Temps = {}
    /\ NoFile \notin Files \cup Temps \cup {Anon}
    /\ Migrations \in Seq(Nat \ {0})
    /\ IsFiniteSet(Parts) /\ Parts = 1..Cardinality(Parts)
    /\ MaxBatches \in Nat /\ MaxOps \in Nat /\ MaxFaults \in Nat

VARIABLES
    ui,      \* where the user-interface thread is
    op,      \* what the user has asked for
    job,     \* what the upgrade under way is part of
    todo,    \* migrations the upgrade still has to run
    step,    \* queries of the current migration that have run
    dead,    \* how the process ended, or "no"
    disk,    \* the contents of the files
    file,    \* the file that is open
    work,    \* the contents as the connection sees them
    inTx,    \* a transaction is open
    thread,  \* the message thread
    part,    \* rows of the current batch that have been inserted
    name,    \* main_window::m_db_file_name
    temp,    \* m_is_db_temporary
    ids,     \* m_type_to_id_map
    types,   \* m_id_to_type_map
    next,    \* m_next_type_id
    batch,   \* the batch being recorded
    count,   \* requests and failures so far
    kept,    \* history: what the user may expect to find in a file
    last,    \* history: the file saved last
    exposed, \* history: files saved last before a session was started
    torn,    \* history: batches of which an insert or a commit has lost a row
    sources, \* history: traces opened and sessions started
    asked    \* history: the user was asked about unsaved data

window == <<ui, op, job, todo, step, dead>>
store == <<disk, file, work, inTx>>
names == <<ids, types, next>>
history == <<kept, last, exposed, torn, sources, asked>>
vars == <<window, store, thread, part, name, temp, names, batch, count, history>>

Paths == Files \cup Temps \cup {Anon}
Unsaved == Temps \cup {Anon}

(* The tables and indices a migration creates.                             *)
Tables(m) == {<<m, q>> : q \in 1..Migrations[m]}
TablesOf(done) == UNION {Tables(m) : m \in done}

(* The rows of ProfilerEvents and what a database holds.                   *)
Rows == [batch : Nat, part : Parts, id : Nat, name : Names]
Contents ==
    [schema : SUBSET TablesOf(DOMAIN Migrations), done : SUBSET DOMAIN Migrations,
     rows   : SUBSET Rows, types : SUBSET (Nat \X Names)]

ASSUME AbsentAssumption == Absent \notin Contents

Empty == [schema |-> {}, done |-> {}, rows |-> {}, types |-> {}]

(* A trace an earlier version with k migrations has left.                  *)
Trace(k, n) ==
    [schema |-> TablesOf(1..k), done |-> 1..k,
     rows   |-> {[batch |-> 0, part |-> p, id |-> 0, name |-> n] : p \in Parts},
     types  |-> {<<0, n>>}]
Traces == {Trace(k, n) : k \in 1..Len(Migrations), n \in Names}

RowsIn(c) == IF c = Absent THEN Absent ELSE c.rows

Init ==
    /\ ui = "idle" /\ op = "open" /\ job = "open" /\ todo = {} /\ step = 0 /\ dead = "no"
    /\ \E d \in [Files -> Traces \cup {Absent}] :
         /\ disk = [p \in Paths |-> IF p \in Files THEN d[p] ELSE Absent]
         /\ kept = [f \in Files |-> RowsIn(d[f])]
    /\ file = NoFile /\ work = Empty /\ inTx = FALSE
    /\ thread = "none" /\ part = 0
    /\ name = NoFile /\ temp = FALSE
    /\ ids = << >> /\ types = << >> /\ next = 0
    /\ batch = 1 /\ count = [ops |-> 0, faults |-> 0]
    /\ last = NoFile /\ exposed = {} /\ torn = {} /\ sources = 0 /\ asked = FALSE

-----------------------------------------------------------------------------
(* Seeded faults: variants of definitions below, each with a plausible     *)
(* slip in the code it stands for.  No action uses them.                   *)

(* The transaction is not begun.                                           *)
Begun_Not == FALSE

(* The copy does not mind an open transaction.                             *)
Busy_Never == FALSE

(* onOpenData remembers the file it opens.                                 *)
OpenedName_File(f) == f

(* load_types_and_callstacks is left out.                                  *)
Loaded_Not(m, new) == m

(* m_is_db_temporary is not set when a session starts.                     *)
StartedTemp_Kept(t) == t

-----------------------------------------------------------------------------
(* persistent_storage.                                                     *)

Fault == count.faults < MaxFaults /\ count' = [count EXCEPT !.faults = @ + 1]

(* transaction::transaction: BEGIN fails without a word in a transaction.  *)
Begun == TRUE

(* A statement: outside a transaction it is committed at once.             *)
Write(c) ==
    /\ work' = c
    /\ disk' = IF inTx THEN disk ELSE [disk EXCEPT ![file] = c]

(* transaction::commit                                                     *)
Commit(c) == disk' = [disk EXCEPT ![file] = c] /\ work' = c /\ inTx' = FALSE

(* commit looks at no result: a failed END leaves the transaction open or  *)
(* has rolled it back.                                                     *)
CommitFails(c) ==
    \/ work' = c /\ inTx' = TRUE /\ UNCHANGED disk
    \/ work' = disk[file] /\ inTx' = FALSE /\ UNCHANGED disk

(* transaction::rollback                                                   *)
Rollback == work' = disk[file] /\ inTx' = FALSE /\ UNCHANGED disk

(* close: what was not committed is gone, and a private database too.      *)
Closed(d) == [d EXCEPT ![Anon] = Absent]

(* sqlite3_backup_step refuses to copy during a write transaction.         *)
Busy == inTx /\ work # disk[file]

-----------------------------------------------------------------------------
(* upgrade_database, as a part of opening, saving and starting.            *)

(* The migrations that are not recorded; they run in order.                *)
Incomplete(c) == DOMAIN Migrations \ c.done
IsNext(m) == \A k \in todo : m <= k

(* Where the user interface goes on after a trace has been saved or not.   *)
AfterSave == IF op = "save" THEN "idle" ELSE "go"
AfterJob == IF job = "save" THEN AfterSave ELSE "idle"

Upgrading == dead = "no" /\ ui = "upgrade"

(* Queries of migration m that still have to run.                          *)
StepsLeft(m) == step < Migrations[m]

(* The next query of the migration; the first one begins a transaction.    *)
UpgradeQuery(m) ==
    /\ Upgrading /\ IsNext(m)
    /\ StepsLeft(m)
    /\ <<m, step + 1>> \notin work.schema
    /\ LET c == [work EXCEPT !.schema = @ \cup {<<m, step + 1>>}]
           t == inTx \/ (step = 0 /\ Begun)
       IN  /\ work' = c /\ inTx' = t
           /\ disk' = IF t THEN disk ELSE [disk EXCEPT ![file] = c]
    /\ step' = step + 1
    /\ UNCHANGED <<ui, op, job, todo, dead, file, thread, part, name, temp, names, batch, count,
                   history>>

(* The migration is recorded and committed.                                *)
UpgradeRecord(m) ==
    /\ Upgrading /\ IsNext(m)
    /\ ~StepsLeft(m)
    /\ LET c == [work EXCEPT !.done = @ \cup {m}]
       IN  \/ Commit(c) /\ UNCHANGED count
           \/ CommitFails(c) /\ Fault
    /\ step' = 0 /\ todo' = todo \ {m}
    /\ UNCHANGED <<ui, op, job, dead, file, thread, part, name, temp, names, batch, history>>

(* A query fails, or its table is there already.                           *)
UpgradeFails(m) ==
    /\ Upgrading /\ IsNext(m)
    /\ \/ <<m, step + 1>> \in work.schema /\ UNCHANGED count
       \/ Fault
    /\ Rollback
    /\ step' = 0 /\ todo' = {} /\ ui' = AfterJob
    /\ UNCHANGED <<op, job, dead, file, thread, part, name, temp, names, batch, history>>

(* register_queries fails if a table is missing.                           *)
Registered == TablesOf(DOMAIN Migrations) \subseteq work.schema

RegisterFails ==
    /\ Upgrading /\ todo = {} /\ ~Registered
    /\ ui' = AfterJob
    /\ UNCHANGED <<op, job, todo, step, dead, store, thread, part, name, temp, names, batch,
                   count, history>>

(* load_types_and_callstacks: insert keeps what a map has.                 *)
Loaded(m, new) == [x \in DOMAIN m \cup DOMAIN new |-> IF x \in DOMAIN m THEN m[x] ELSE new[x]]
TypesOf(c) == [i \in {t[1] : t \in c.types} |-> (CHOOSE t \in c.types : t[1] = i)[2]]
IdsOf(c) == [n \in {t[2] : t \in c.types} |-> (CHOOSE t \in c.types : t[2] = n)[1]]

(* m_is_db_temporary of a session that has started                         *)
StartedTemp(t) == TRUE

(* The tables are up to date and the queries registered: a trace is        *)
(* loaded, a session gets its message thread.                              *)
UpgradeDone ==
    /\ Upgrading /\ todo = {} /\ Registered
    /\ ui' = AfterJob
    /\ \/ /\ job \in {"save", "open"}
          /\ types' = Loaded(types, TypesOf(work)) /\ ids' = Loaded(ids, IdsOf(work))
          /\ temp' = FALSE
          /\ name' = IF job = "save" THEN file ELSE name
          /\ kept' = IF job = "save" THEN [kept EXCEPT ![file] = work.rows] ELSE kept
          /\ last' = IF job = "save" THEN file ELSE last
          /\ UNCHANGED thread
       \/ /\ job \in {"start", "run"}
          /\ thread' = "idle" /\ temp' = StartedTemp(temp)
          /\ UNCHANGED <<types, ids, name, kept, last>>
    /\ UNCHANGED <<op, job, todo, step, dead, store, part, next, batch, count, exposed, torn,
                   sources, asked>>

-----------------------------------------------------------------------------
(* The message thread: save_frame_events.                                  *)

BeginBatch ==
    /\ dead = "no" /\ thread = "idle" /\ batch <= MaxBatches
    /\ thread' = "batch" /\ part' = 0
    /\ inTx' = (inTx \/ Begun)
    /\ UNCHANGED <<window, disk, file, work, name, temp, names, batch, count, history>>

(* get_or_create_type_id and insert_alloc_event; nobody looks at whether   *)
(* the row or the type has been inserted.                                  *)
InsertRow(n) ==
    /\ dead = "no" /\ thread = "batch" /\ part < Cardinality(Parts)
    /\ part' = part + 1
    /\ LET new == n \notin DOMAIN ids
           id  == IF new THEN next ELSE ids[n]
           row == [batch |-> batch, part |-> part + 1, id |-> id, name |-> n]
       IN  /\ ids' = Loaded(ids, [x \in {n} |-> id])
           /\ types' = IF new THEN Loaded(types, [x \in {id} |-> n]) ELSE types
           /\ next' = IF new THEN next + 1 ELSE next
           /\ \E rows \in {work.rows \cup {row}, work.rows},
                 ts \in {IF new THEN work.types \cup {<<id, n>>} ELSE work.types, work.types} :
                /\ Write([work EXCEPT !.rows = rows, !.types = ts])
                /\ torn' = IF row \in rows THEN torn ELSE torn \cup {batch}
                /\ IF row \in rows /\ (new => <<id, n>> \in ts) THEN UNCHANGED count ELSE Fault
    /\ UNCHANGED <<window, file, inTx, thread, name, temp, batch, kept, last, exposed,
                   sources, asked>>

(* The batches of the rows in one set and not in another.                  *)
Lost(all, left) == {r.batch : r \in all \ left}

CommitBatch ==
    /\ dead = "no" /\ thread = "batch" /\ part = Cardinality(Parts)
    /\ thread' = "idle" /\ batch' = batch + 1
    /\ \/ Commit(work) /\ UNCHANGED count
       \/ CommitFails(work) /\ Fault
    /\ torn' = torn \cup Lost(work.rows, work'.rows)
    /\ UNCHANGED <<window, file, part, name, temp, names, kept, last, exposed, sources, asked>>

-----------------------------------------------------------------------------
(* The user.                                                               *)

(* A menu entry; starting and saving are disabled during a session.  If    *)
(* there is unsaved data, trySaveUnsavedData asks.                         *)
Choose(o) ==
    /\ dead = "no" /\ ui = "idle"
    /\ o \in {"start", "save"} => thread = "none"
    /\ count.ops < MaxOps /\ count' = [count EXCEPT !.ops = @ + 1]
    /\ op' = o
    /\ ui' = IF o = "save" THEN "save" ELSE IF temp /\ file # NoFile THEN "ask" ELSE "go"
    /\ asked' = FALSE
    /\ UNCHANGED <<job, todo, step, dead, store, thread, part, name, temp, names, batch, kept,
                   last, exposed, torn, sources>>

Answer(there) ==
    /\ dead = "no" /\ ui = "ask"
    /\ ui' = there
    /\ asked' = TRUE
    /\ UNCHANGED <<op, job, todo, step, dead, store, thread, part, name, temp, names, batch, count,
                   kept, last, exposed, torn, sources>>

(* The file dialog is cancelled, or no data is open.  Whoever asked goes   *)
(* on as if it had been saved.                                             *)
SaveNothing ==
    /\ dead = "no" /\ ui = "save"
    /\ ui' = AfterSave
    /\ UNCHANGED <<op, job, todo, step, dead, store, thread, part, name, temp, names, batch, count,
                   history>>

(* Windows does not remove a file that is open: std::filesystem throws.    *)
SaveOntoItself ==
    /\ dead = "no" /\ ui = "save" /\ file \in Files
    /\ dead' = "throw"
    /\ UNCHANGED <<ui, op, job, todo, step, store, thread, part, name, temp, names, batch, count,
                   history>>

(* persistent_storage::save: an existing file is removed first.            *)
SaveFails(f) ==
    /\ dead = "no" /\ ui = "save" /\ file # NoFile /\ f # file
    /\ \/ Busy /\ UNCHANGED count
       \/ Fault
    /\ disk' = [disk EXCEPT ![f] = Absent]
    /\ kept' = [kept EXCEPT ![f] = Absent]
    /\ ui' = AfterSave
    /\ UNCHANGED <<op, job, todo, step, dead, file, work, inTx, thread, part, name, temp, names,
                   batch, last, exposed, torn, sources, asked>>

(* The copy is made and opened, which open_data refuses during a session.  *)
SaveCopies(f) ==
    /\ dead = "no" /\ ui = "save" /\ file # NoFile /\ f # file
    /\ ~Busy
    /\ kept' = [kept EXCEPT ![f] = Absent]
    /\ IF thread # "none"
       THEN /\ disk' = [disk EXCEPT ![f] = work]
            /\ ui' = AfterSave
            /\ UNCHANGED <<file, work, inTx, job, todo>>
       ELSE /\ disk' = Closed([disk EXCEPT ![f] = work])
            /\ file' = f /\ inTx' = FALSE
            /\ ui' = "upgrade" /\ job' = "save" /\ todo' = Incomplete(work)
            /\ UNCHANGED work
    /\ UNCHANGED <<op, step, dead, thread, part, name, temp, names, batch, count, last,
                   exposed, torn, sources, asked>>

Going(o) == dead = "no" /\ ui = "go" /\ op = o

(* close_db asserts that there is no message thread.                       *)
CloseAsserts ==
    /\ \E o \in {"open", "start", "run"} : Going(o)
    /\ thread # "none"
    /\ dead' = "closed"
    /\ UNCHANGED <<ui, op, job, todo, step, store, thread, part, name, temp, names, batch, count,
                   history>>

(* The database is closed and nothing opened: the dialog is cancelled, or  *)
(* opening fails.                                                          *)
OpenNothing ==
    /\ Going("open") /\ thread = "none"
    /\ disk' = Closed(disk) /\ file' = NoFile /\ work' = Empty /\ inTx' = FALSE
    /\ ui' = "idle"
    /\ UNCHANGED <<op, job, todo, step, dead, thread, part, name, temp, names, batch, count,
                   history>>

(* onOpenData leaves m_db_file_name alone.                                 *)
OpenedName(f) == name

OpenTrace(f) ==
    /\ Going("open") /\ thread = "none"
    /\ disk[f] # Absent
    /\ disk' = Closed(disk) /\ file' = f /\ work' = disk[f] /\ inTx' = FALSE
    /\ name' = OpenedName(f)
    /\ ui' = "upgrade" /\ job' = "open" /\ todo' = Incomplete(disk[f])
    /\ sources' = sources + 1
    /\ UNCHANGED <<op, step, dead, thread, part, temp, names, batch, count, kept, last,
                   exposed, torn, asked>>

(* A new database, made by mono_profiler_client::start once connected.     *)
Created(d, f) ==
    \/ /\ disk' = [d EXCEPT ![f] = Empty]
       /\ file' = f /\ work' = Empty /\ inTx' = FALSE
       /\ ui' = "upgrade" /\ job' = op /\ todo' = Incomplete(Empty)
       /\ sources' = sources + 1
    \/ /\ disk' = d /\ file' = NoFile /\ work' = Empty /\ inTx' = FALSE
       /\ ui' = "idle"
       /\ UNCHANGED <<job, todo, sources>>

(* onStartProfiling removes the file m_db_file_name names.                 *)
StartProfiling(t) ==
    /\ Going("start") /\ thread = "none"
    /\ disk[t] = Absent /\ t # name
    /\ Created(IF name \in Paths THEN [Closed(disk) EXCEPT ![name] = Absent]
                                 ELSE Closed(disk), t)
    /\ name' = t
    /\ exposed' = exposed \cup {last}
    /\ UNCHANGED <<op, step, dead, thread, part, temp, names, batch, count, kept, last, torn,
                   asked>>

(* onRunUnityApp                                                           *)
RunUnityApp ==
    /\ Going("run") /\ thread = "none"
    /\ Created(Closed(disk), Anon)
    /\ name' = Anon
    /\ UNCHANGED <<op, step, dead, thread, part, temp, names, batch, count, kept, last,
                   exposed, torn, asked>>

(* The window is closed: stop, close_db, and a temporary file is removed.  *)
Exit ==
    /\ Going("exit") /\ thread # "batch"
    /\ thread' = "none"
    /\ disk' = IF temp /\ name \in Paths THEN [Closed(disk) EXCEPT ![name] = Absent]
                                         ELSE Closed(disk)
    /\ file' = NoFile /\ work' = Empty /\ inTx' = FALSE
    /\ dead' = "exit"
    /\ UNCHANGED <<ui, op, job, todo, step, part, name, temp, names, batch, count, history>>

(* onStopProfiling, from the menu or from a timer while a dialog is up:    *)
(* the message thread ends when its batch is written.                      *)
StopProfiling ==
    /\ dead = "no" /\ ui \in {"idle", "ask", "save", "go"}
    /\ thread = "idle"
    /\ thread' = "none"
    /\ UNCHANGED <<window, store, part, name, temp, names, batch, count, history>>

-----------------------------------------------------------------------------
Next ==
    \/ \E m \in todo : UpgradeQuery(m) \/ UpgradeRecord(m) \/ UpgradeFails(m)
    \/ RegisterFails \/ UpgradeDone
    \/ BeginBatch \/ CommitBatch \/ \E n \in Names : InsertRow(n)
    \/ \E o \in {"open", "start", "run", "save", "exit"} : Choose(o)
    \/ \E a \in {"save", "go", "idle"} : Answer(a)
    \/ SaveNothing \/ SaveOntoItself
    \/ \E f \in Files : SaveFails(f) \/ SaveCopies(f) \/ OpenTrace(f)
    \/ CloseAsserts \/ OpenNothing
    \/ \E t \in Temps : StartProfiling(t)
    \/ RunUnityApp \/ Exit \/ StopProfiling

Spec == Init /\ [][Next]_vars

-----------------------------------------------------------------------------
(* Properties.                                                             *)

WindowOK ==
    /\ ui \in {"idle", "ask", "save", "go", "upgrade"}
    /\ op \in {"open", "start", "run", "save", "exit"} /\ job \in {"open", "start", "run", "save"}
    /\ dead \in {"no", "closed", "throw", "exit"}
    /\ step \in Nat /\ todo \subseteq DOMAIN Migrations
StoreOK ==
    /\ disk \in [Paths -> Contents \cup {Absent}] /\ work \in Contents
    /\ file \in Paths \cup {NoFile} /\ name \in Paths \cup {NoFile}
SessionOK ==
    /\ thread \in {"none", "idle", "batch"} /\ part \in 0..Cardinality(Parts) /\ batch \in Nat
    /\ inTx \in BOOLEAN /\ temp \in BOOLEAN /\ asked \in BOOLEAN
NamesOK ==
    /\ DOMAIN ids \subseteq Names /\ \A n \in DOMAIN ids : ids[n] \in Nat
    /\ DOMAIN types \subseteq Nat /\ \A i \in DOMAIN types : types[i] \in Names
    /\ next \in Nat
HistoryOK ==
    /\ kept \in [Files -> (SUBSET Rows) \cup {Absent}] /\ last \in Files \cup {NoFile}
    /\ count \in [ops : Nat, faults : Nat] /\ torn \subseteq Nat /\ sources \in Nat

(* Type invariant.                                                         *)
TypeOK == WindowOK /\ StoreOK /\ SessionOK /\ NamesOK /\ HistoryOK

(* Every file has exactly the tables of the migrations recorded in it,     *)
(* whichever query or commit of an upgrade fails; the next upgrade never   *)
(* meets half a migration.                                                 *)
SchemaWhole ==
    \A p \in Paths : disk[p] # Absent => disk[p].schema = TablesOf(disk[p].done)

(* What is in a file is a whole number of batches without a gap, whenever  *)
(* it is saved or closed and whatever has failed, except for batches an    *)
(* insert or a commit has lost: so a frame that is one batch is not cut,   *)
(* and of a longer one only batches at an end of the file can be missing.  *)
BatchesWhole ==
    \A p \in Paths : disk[p] # Absent =>
        \A q, r \in disk[p].rows : \A b \in q.batch..r.batch :
            b \in torn \/ {s.part : s \in {s \in disk[p].rows : s.batch = b}} = Parts

(* A trace the user has opened or saved stays on disk with all its rows,   *)
(* unless it was the last one saved before a session was started.          *)
KeptUnlessStarted ==
    \A f \in Files \ exposed : kept[f] # Absent => RowsIn(disk[f]) = kept[f]

(* What has been saved stays saved.                                        *)
SavedTracesKept == \A f \in Files : kept[f] # Absent => RowsIn(disk[f]) = kept[f]

(* The names shown for the first trace opened or recorded are its own.     *)
NamesMatch ==
    sources <= 1 /\ file # NoFile /\ ui = "idle" /\ Registered =>
        \A r \in work.rows : r.id \in DOMAIN types /\ types[r.id] = r.name

(* The rows of a session are only given up after the user was asked.       *)
UnsavedOffered ==
    [][(file \in Unsaved /\ work.rows # {} /\ file' # file) => asked \/ job' = "save"]_vars
=============================================================================
