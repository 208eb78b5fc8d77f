----------------------------- MODULE AtomicStore -----------------------------
(***************************************************************************)
(* What the preference store promises its callers, without SQLite: every   *)
(* operation takes effect at one instant or not at all, the answer says    *)
(* which, and a change of consent never goes without a new epoch.          *)
(***************************************************************************)
EXTENDS Integers

CONSTANTS Users, Bots, Tags, Conns, Statuses, NoRow

VARIABLES
  rows,    \* the stored entry of each owner and tag, or NoRow
  state,   \* enabled and epoch of each user
  answer   \* the last answer each connection got

storeVars == <<rows, state, answer>>

Owners == Users \cup Bots
Refusals == {"conflict", "deleted", "missing", "error"}

\* A connection comes (back) with no answer.
Forget(c) ==
  /\ answer' = [answer EXCEPT ![c] = "none"]
  /\ UNCHANGED <<rows, state>>

\* Nothing is changed by an operation that is refused or fails.
Refuse(c) ==
  /\ \E a \in Refusals : answer' = [answer EXCEPT ![c] = a]
  /\ UNCHANGED <<rows, state>>

\* A new entry starts at revision 1, an old one goes up by one.
Put(c, o, t) ==
  /\ \E s \in Statuses : rows' = [rows EXCEPT ![<<o, t>>] = [rev |-> @.rev + 1, status |-> s]]
  /\ answer' = [answer EXCEPT ![c] = "ok"]
  /\ UNCHANGED state

Drop(c, o, t) ==
  /\ rows[<<o, t>>] # NoRow
  /\ rows' = [rows EXCEPT ![<<o, t>>] = NoRow]
  /\ answer' = [answer EXCEPT ![c] = "ok"]
  /\ UNCHANGED state

Switch(c, u) ==
  /\ \E on \in BOOLEAN :
       state' = [state EXCEPT ![u] = [enabled |-> on, epoch |-> @.epoch + 1]]
  /\ answer' = [answer EXCEPT ![c] = "ok"]
  /\ UNCHANGED rows

\* All the entries of o at once; those of a user with the consent.
Wipe(c, o) ==
  /\ rows' = [k \in Owners \X Tags |-> IF k[1] = o THEN NoRow ELSE rows[k]]
  /\ state' = [u \in Users |-> IF u = o THEN [enabled |-> FALSE, epoch |-> state[u].epoch + 1]
                                        ELSE state[u]]
  /\ answer' = [answer EXCEPT ![c] = "ok"]

Init ==
  /\ rows = [k \in Owners \X Tags |-> NoRow]
  /\ state = [u \in Users |-> [enabled |-> FALSE, epoch |-> 0]]
  /\ answer = [c \in Conns |-> "none"]

Next ==
  \E c \in Conns :
    \/ Forget(c) \/ Refuse(c)
    \/ \E o \in Owners, t \in Tags : Put(c, o, t) \/ Drop(c, o, t)
    \/ \E u \in Users : Switch(c, u)
    \/ \E o \in Owners : Wipe(c, o)

Spec == Init /\ [][Next]_storeVars
=============================================================================
