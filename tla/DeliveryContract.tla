--------------------------- MODULE DeliveryContract ---------------------------
(***************************************************************************)
(* What the plugin promises of the guidance it adds to requests, without   *)
(* hooks, registry, tokens or host: guidance is sent only on the strength  *)
(* of a consent that was read for that request and not withdrawn since.    *)
(***************************************************************************)
CONSTANT Turns

VARIABLES
  standing,  \* of each turn's request: no consent read, granted, withdrawn
  wire       \* what its last provider call carried since it was granted or withdrawn

contractVars == <<standing, wire>>

Init == /\ standing = [t \in Turns |-> "none"]
        /\ wire = [t \in Turns |-> "none"]

\* A request begins with the consent of that moment.
Grant(t) == /\ standing[t] = "none"
            /\ standing' = [standing EXCEPT ![t] = "granted"]
            /\ UNCHANGED wire

\* Off, clear, the administrator's switch, unloading: for good for these requests.
Withdraw(S) ==
  /\ \A t \in S : standing[t] = "granted"
  /\ standing' = [t \in Turns |-> IF t \in S THEN "withdrawn" ELSE standing[t]]
  /\ wire' = [t \in Turns |-> IF t \in S THEN "none" ELSE wire[t]]

\* Every call of the request, the retries and the steps of the tool loop included.
Call(t) == /\ \/ wire' = [wire EXCEPT ![t] = "plain"]
              \/ /\ standing[t] = "granted"
                 /\ wire' = [wire EXCEPT ![t] = "guided"]
           /\ UNCHANGED standing

\* The request is over; another one starts from nothing.
Retire(t) == /\ standing' = [standing EXCEPT ![t] = "none"]
             /\ wire' = [wire EXCEPT ![t] = "none"]

Next == \/ \E t \in Turns : Grant(t) \/ Call(t) \/ Retire(t)
        \/ \E S \in SUBSET Turns : Withdraw(S)

Spec == Init /\ [][Next]_contractVars
=============================================================================
