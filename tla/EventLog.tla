------------------------------ MODULE EventLog ------------------------------
(***************************************************************************)
(* What recording a stream of events promises: the log grows by batches.   *)
(* A batch is a run of consecutive events of one frame, written as a       *)
(* whole, in order and once.  It ends where its frame ends or, in a frame  *)
(* with more events than that, when it has Limit + 1 of them.  Opening a   *)
(* new log drops nothing that still waits.                                 *)
(***************************************************************************)
EXTENDS Integers, Sequences

CONSTANTS
    Events,  \* the events of the stream, records with a field frame
    Limit    \* how many events of an unfinished frame may wait

VARIABLES
    log,     \* the events written
    pending  \* the events that wait for their batch to end

logVars == <<log, pending>>

LogInit == log = <<>> /\ pending = <<>>

Joins(e) == \A i \in 1..Len(pending) : pending[i].frame = e.frame

(* An event joins the batch ...                                            *)
Gather(e) ==
    /\ Joins(e)
    /\ Len(pending) < Limit
    /\ pending' = Append(pending, e)
    /\ UNCHANGED log

(* ... or fills it, which writes it ...                                    *)
WriteFull(e) ==
    /\ Joins(e)
    /\ Len(pending) = Limit
    /\ log' = log \o Append(pending, e)
    /\ pending' = <<>>

(* ... or begins another frame: the batch is written without it.           *)
WriteFrame(e) ==
    /\ ~Joins(e)
    /\ log' = log \o pending
    /\ pending' = <<e>>

NewLog ==
    /\ log' = <<>>
    /\ UNCHANGED pending

LogNext ==
    \/ \E e \in Events : Gather(e) \/ WriteFull(e) \/ WriteFrame(e)
    \/ NewLog

LogSpec == LogInit /\ [][LogNext]_logVars
=============================================================================
