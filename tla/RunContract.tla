----------------------------- MODULE RunContract -----------------------------
(***************************************************************************)
(* What a run of the host's tool loop promises to those beside it, without *)
(* providers, retries, streams, steps or tools: to a plugin, which drops   *)
(* what it kept for the run in on_agent_done, that no provider is asked    *)
(* and no tool runs from then on; to the sender of a follow-up message,    *)
(* that it is told to the model or handed back, never both, and is lost    *)
(* only by a stop or behind a tool that answered the user itself.          *)
(***************************************************************************)
CONSTANT Tickets

VARIABLES
  life,  \* open; closed without on_agent_done; answered or stopped, with it
  busy,  \* whether a provider is being asked or a tool is at work
  fate   \* of each follow-up message

runVars == <<life, busy, fate>>

Init == /\ life = "open"
        /\ busy = "no"
        /\ fate = [t \in Tickets |-> "free"]

Moved(from, to) == fate' = [t \in Tickets |-> IF fate[t] = from THEN to ELSE fate[t]]

\* Messages are accepted while the run is open.
Post(t) == /\ life = "open"
           /\ fate[t] = "free"
           /\ fate' = [fate EXCEPT ![t] = "queued"]
           /\ UNCHANGED <<life, busy>>

\* A provider is asked, and told every message taken in so far.
Ask == /\ life = "open" /\ busy = "no"
       /\ busy' = "asking"
       /\ Moved("taken", "told")
       /\ UNCHANGED life

\* A tool starts, also behind one that has closed the run.
Work == /\ life \in {"open", "closed"} /\ busy = "no"
        /\ busy' = "working"
        /\ UNCHANGED <<life, fate>>

\* The provider or the tool is done with, or the run's task is no more.
Rest == /\ busy' = "no"
        /\ UNCHANGED <<life, fate>>

\* The result of a tool, or in its place the note that there is none, takes the
\* messages in.
Take == /\ life \in {"open", "closed"} /\ busy # "asking"
        /\ Moved("queued", "taken")
        /\ busy' \in {busy, "no"}
        /\ UNCHANGED life

\* A tool has answered the user.
AnswerDirectly == /\ life = "open" /\ busy = "working"
                  /\ life' = "closed"
                  /\ Moved("queued", "taken")
                  /\ UNCHANGED busy

\* A provider was asked since the last message was taken in.
AllTold == \A t \in Tickets : fate[t] # "taken"

\* An error: the messages are handed back.
Fail == /\ life = "open" /\ busy = "no" /\ AllTold
        /\ life' = "closed"
        /\ Moved("queued", "returned")
        /\ UNCHANGED busy

\* An answer, with on_agent_done.
Answer == /\ life = "open" /\ busy = "no" /\ AllTold
          /\ life' = "answered"
          /\ UNCHANGED <<busy, fate>>

\* A stop, with on_agent_done.
Stop == /\ life \in {"open", "closed"}
        /\ life' = "stopped"
        /\ busy' = "no"
        /\ \E lost \in SUBSET {t \in Tickets : fate[t] \in {"queued", "taken"}} :
             fate' = [t \in Tickets |-> IF t \in lost THEN "lost" ELSE fate[t]]

\* What is still in the queue when on_agent_done has returned is handed back.
HandBack == /\ life \in {"answered", "stopped"}
            /\ Moved("queued", "returned")
            /\ UNCHANGED <<life, busy>>

Next == \/ \E t \in Tickets : Post(t)
        \/ Ask \/ Work \/ Rest \/ Take
        \/ AnswerDirectly \/ Fail \/ Answer \/ Stop \/ HandBack

Spec == Init /\ [][Next]_runVars
=============================================================================
