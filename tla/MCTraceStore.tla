---- MODULE MCTraceStore ----
(* TraceStore with one migration, as all_migrations has, of two queries.   *)
EXTENDS TraceStore, TLC

MCMigrations == <<2>>
StoreSymmetry == Permutations(Files) \cup Permutations(Temps) \cup Permutations(Names)
====
