--------------------------- MODULE MCTurnExclusion ---------------------------
(* TLC instances of TurnExclusion.                                         *)
EXTENDS TurnExclusion
=============================================================================
