----------------------------- MODULE MCPseudoGC -----------------------------
(* PseudoGC for TLC: addresses and root areas are interchangeable.         *)
EXTENDS PseudoGC, TLC

GcSymmetry == Permutations(Addr) \cup Permutations(Areas)
=============================================================================
