--------------------------- MODULE MCTurnInjection ---------------------------
(* TLC instances of TurnInjection: interchangeable users and turns.        *)
EXTENDS TurnInjection, TLC

Symmetry == Permutations(Users) \cup Permutations(Turns)
=============================================================================
