------------------------------- MODULE MCPolicy -------------------------------
(* TLC instances of Policy, with the lengths of the texts in the code.      *)
EXTENDS Policy

Typed == {[items |-> 0, chars |-> 200], [items |-> 2, chars |-> 150]}

\* Tags with names of 2, 16 and 4 characters and different directions.
ItemAvoidLen == <<22, 36, 24>>
ItemPositiveLen == <<37, 72, 50>>
=============================================================================
