--------------------------- MODULE MCWorkerThread ---------------------------
(***************************************************************************)
(* Small instances of WorkerThread for TLC.                                *)
(***************************************************************************)
EXTENDS WorkerThread, TLC

(* Addresses are interchangeable. *)
AddrSymmetry == Permutations(Addr)
=============================================================================
