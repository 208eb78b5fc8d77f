----------------------------- MODULE MCHostLoop -----------------------------
(* TLC instances of HostLoop.                                              *)
EXTENDS HostLoop
=============================================================================
