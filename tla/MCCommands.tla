------------------------------ MODULE MCCommands ------------------------------
(* TLC instances of Commands: interchangeable personas and codes.           *)
EXTENDS Commands, TLC

Symmetry == Permutations(Personas) \cup Permutations(Codes)
=============================================================================
