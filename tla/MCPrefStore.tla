----------------------------- MODULE MCPrefStore -----------------------------
(* TLC instances of PrefStore: interchangeable connections.                *)
EXTENDS PrefStore, TLC

Symmetry == Permutations(Conns)
=============================================================================
